---- MODULE Spec2Model ----
(***************************************************************************)
(* Model of scripts/generate_moonbit.mjs: the WebIDL-JSON to MoonBit       *)
(* generator.  The pure helpers are operators computed as the code         *)
(* computes them; each specification draws the inputs of one component     *)
(* from bounded sets and applies the component's operations.               *)
(***************************************************************************)
EXTENDS Naturals, Sequences, FiniteSets, TLC

VARIABLES
    loaded,        \* the definitions as JSON.parse delivered them (never written)
    definitions,   \* mergePartialDefinitions: the parsed definitions (objects, mutated in place)
    merged,        \* the list mergePartialDefinitions returned
    warnings,      \* the console.warn lines of the merge
    firstMerged,   \* the list returned by the first merge, kept for comparison
    pc,            \* the position of main(): "loaded", "merged", "remerged"
    argType,       \* the IDL type handed to a mapper or to getDefaultValue
    argDefault,    \* the default descriptor handed to getDefaultValue
    called,        \* the function that was called, "" before the call
    returned,      \* what the call returned
    given,         \* the definition handed to a generator
    generated,     \* the lines the generator pushed, in order
    inputDefinitions, \* the definitions handed to generateMoonbitFile or read by main()
    outputFile,    \* event.mbt: whether it was written, and the lines joined into it
    errors,        \* the console.error lines of generateMoonbitFile
    filesToCopy,   \* fetch_webref: the selected files, in selection order
    summary,       \* fetch_webref: the summary object
    copied,        \* fetch_webref: the files present in the output directory
    fetchPc,       \* fetch_webref: the loop index and the pending await
    inputFiles,    \* parse_idl: the input files, in argument order
    taskPc,        \* parse_idl: the pending await of each parseIdlFile call
    results,       \* parse_idl: what each parseIdlFile call resolved to
    outputs,       \* parse_idl: the JSON files of the output directory
    printed,       \* parse_idl: the summary main() printed
    identifier,    \* the identifier handed to toSnakeCase, as characters
    argName        \* the name handed to escapeMoonbitKeyword

mergeVars == <<loaded, definitions, merged, warnings, firstMerged, pc>>
typeVars == <<argType, argDefault, called, returned>>
genVars == <<given, generated>>
fileVars == <<inputDefinitions, outputFile, errors>>
fetchVars == <<filesToCopy, summary, copied, fetchPc>>
parseVars == <<inputFiles, taskPc, results, outputs, printed>>
nameVars == <<identifier, argName>>
vars == <<mergeVars, typeVars, genVars, fileVars, fetchVars, parseVars, nameVars>>

------------------------------------------------------------------------------
(* Bounds *)

\* Longest list of definitions handed to mergePartialDefinitions.
MaxDefs == 3

\* Deepest nesting of generics and unions in an IDL type handed to the mappers.
MaxTypeDepth == 2

\* Most members of an interface handed to generateInterface.
MaxMembers == 1

\* Most arguments of an operation.
MaxArgs == 1

\* Longest list of definitions handed to generateMoonbitFile or read by main().
MaxFileDefs == 2

\* Longest identifier drawn character by character for toSnakeCase.
MaxIdentifier == 3

\* Most files selected for the copy loop of fetch_webref.
MaxCopyFiles == 3

\* Most input files handed to parse_idl in one run.
MaxParseFiles == 2

------------------------------------------------------------------------------
(* Generic helpers on sequences *)

Range(s) == {s[k] : k \in 1..Len(s)}

RECURSIVE Flatten(_)
Flatten(ss) == IF ss = <<>> THEN <<>> ELSE Head(ss) \o Flatten(Tail(ss))

------------------------------------------------------------------------------
(* IDL types as webidl2 delivers them *)

\* The value of an idlType property: a string (a base name) or an array of IDL
\* types (the element of a generic, the members of a union).
Str(name) == [isArray |-> FALSE, str |-> name]
Arr(items) == [isArray |-> TRUE, items |-> items]

\* An IDL type descriptor: generic is "" for none.
IDLType(generic, nullable, union, idlType) ==
    [generic |-> generic, nullable |-> nullable, union |-> union, idlType |-> idlType]

Plain(name, nullable) == IDLType("", nullable, FALSE, Str(name))
Generic(g, nullable, element) == IDLType(g, nullable, FALSE, Arr(<<element>>))
Union(nullable, members) == IDLType("", nullable, TRUE, Arr(members))

\* The keys of the type table, in the order of the source.
PrimitiveNames ==
    <<"DOMString", "USVString", "ByteString", "boolean", "undefined", "void",
      "byte", "octet", "short", "unsigned short", "long", "unsigned long",
      "long long", "unsigned long long", "float", "double",
      "unrestricted float", "unrestricted double", "any", "object">>

\* Base names drawn for the inputs: every key of the type table and one name
\* that is not in it (an interface).
BaseNames == Range(PrimitiveNames) \cup {"Event"}

\* The generics drawn for the inputs; FrozenArray stands for the generics the
\* mappers do not name.
Generics == {"sequence", "Promise", "FrozenArray"}

\* One level of nesting around a type: a generic of it, or a union whose first
\* member it is and whose second member is a string or an interface.
Wrappers == Generics \cup {"union DOMString", "union Event"}

Wrap(w, nullable, t) ==
    IF w \in Generics THEN Generic(w, nullable, t)
    ELSE IF w = "union DOMString" THEN Union(nullable, <<t, Plain("DOMString", FALSE)>>)
    ELSE Union(nullable, <<t, Plain("Event", FALSE)>>)

\* The type built from a base by the levels f[1] (innermost) .. f[Len(f)].
RECURSIVE Nest(_, _)
Nest(f, t) ==
    IF f = <<>> THEN t ELSE Nest(Tail(f), Wrap(Head(f)[1], Head(f)[2], t))

\* String(value) of an array of n objects, as a template literal prints it.
RECURSIVE ArrayToString(_)
ArrayToString(n) ==
    IF n = 0 THEN ""
    ELSE IF n = 1 THEN "[object Object]"
    ELSE ArrayToString(n - 1) \o ",[object Object]"

------------------------------------------------------------------------------
(* Type mapper: mapIdlType and mapIdlTypeForFFI *)

\* const typeMap = {...} of mapIdlType
typeMap ==
    [n \in Range(PrimitiveNames) |->
        CASE n \in {"DOMString", "USVString", "ByteString"} -> "String"
          [] n = "boolean" -> "Bool"
          [] n \in {"undefined", "void"} -> "Unit"
          [] n \in {"byte", "octet", "short", "unsigned short", "long", "unsigned long"} -> "Int"
          [] n \in {"long long", "unsigned long long"} -> "Int64"
          [] n \in {"float", "double", "unrestricted float", "unrestricted double"} -> "Double"
          [] n \in {"any", "object"} -> "JsValue"]

\* A foreign-side table that maps the 64-bit integers to Int.
primitivesWithoutInt64 ==
    [n \in Range(PrimitiveNames) |->
        CASE n \in {"DOMString", "USVString", "ByteString"} -> "String"
          [] n = "boolean" -> "Bool"
          [] n \in {"undefined", "void"} -> "Unit"
          [] n \in {"byte", "octet", "short", "unsigned short", "long", "unsigned long",
                    "long long", "unsigned long long"} -> "Int"
          [] n \in {"float", "double", "unrestricted float", "unrestricted double"} -> "Double"
          [] n \in {"any", "object"} -> "JsValue"]

\* const primitives = {...} of mapIdlTypeForFFI
primitives ==
    [n \in Range(PrimitiveNames) |->
        CASE n \in {"DOMString", "USVString", "ByteString"} -> "String"
          [] n = "boolean" -> "Bool"
          [] n \in {"undefined", "void"} -> "Unit"
          [] n \in {"byte", "octet", "short", "unsigned short", "long", "unsigned long"} -> "Int"
          [] n \in {"long long", "unsigned long long"} -> "Int64"
          [] n \in {"float", "double", "unrestricted float", "unrestricted double"} -> "Double"
          [] n \in {"any", "object"} -> "JsValue"]

\* Array.isArray(t.idlType) ? t.idlType[0]?.idlType || 'JsValue' : t.idlType,
\* as the string it is used as: a base name, or the printed form of an array
\* when the first element is itself a generic or a union.
TypeNameOrJsValue(t) ==
    IF t.idlType.isArray
    THEN IF t.idlType.items = <<>> THEN "JsValue"
         ELSE IF t.idlType.items[1].idlType.isArray
              THEN ArrayToString(Len(t.idlType.items[1].idlType.items))
              ELSE IF t.idlType.items[1].idlType.str = "" THEN "JsValue"
                   ELSE t.idlType.items[1].idlType.str
    ELSE t.idlType.str

\* typeMap[typeName] || typeName
TableOrVerbatim(table, typeName) ==
    IF typeName \in DOMAIN table THEN table[typeName] ELSE typeName

\* A semantic mapper that wraps a nullable type in Option[...].
RECURSIVE mapIdlTypeOptional(_)
mapIdlTypeOptional(t) ==
    IF t.union THEN "JsValue"
    ELSE IF t.nullable
         THEN "Option[" \o mapIdlTypeOptional([t EXCEPT !.nullable = FALSE]) \o "]"
    ELSE IF t.generic = "sequence"
         THEN "Array["
              \o (IF t.idlType.isArray THEN mapIdlTypeOptional(t.idlType.items[1]) ELSE "JsValue")
              \o "]"
    ELSE IF t.generic = "Promise" THEN "JsValue"
    ELSE TableOrVerbatim(typeMap, TypeNameOrJsValue(t))

\* mapIdlType(idlType)
RECURSIVE mapIdlType(_)
mapIdlType(t) ==
    IF t.union THEN "JsValue"
    ELSE IF t.nullable THEN mapIdlType([t EXCEPT !.nullable = FALSE])
    ELSE IF t.generic = "sequence"
         THEN "Array["
              \o (IF t.idlType.isArray THEN mapIdlType(t.idlType.items[1]) ELSE "JsValue")
              \o "]"
    ELSE IF t.generic = "Promise" THEN "JsValue"
    ELSE TableOrVerbatim(typeMap, TypeNameOrJsValue(t))

\* A foreign mapper that lets a nullable sequence through to the name lookup.
RECURSIVE mapIdlTypeForFFINullableFirst(_)
mapIdlTypeForFFINullableFirst(t) ==
    IF t.nullable THEN TableOrVerbatim(primitives, TypeNameOrJsValue(t))
    ELSE IF t.union \/ t.generic = "sequence" THEN "JsValue"
    ELSE TableOrVerbatim(primitives, TypeNameOrJsValue(t))

\* A foreign mapper that has no union test and names a union by its first member.
RECURSIVE mapIdlTypeForFFIWithoutUnion(_)
mapIdlTypeForFFIWithoutUnion(t) ==
    IF t.generic = "sequence" THEN "JsValue"
    ELSE IF t.nullable THEN mapIdlTypeForFFIWithoutUnion([t EXCEPT !.nullable = FALSE])
    ELSE TableOrVerbatim(primitives, TypeNameOrJsValue(t))

\* mapIdlTypeForFFI(idlType)
RECURSIVE mapIdlTypeForFFI(_)
mapIdlTypeForFFI(t) ==
    IF t.union \/ t.generic = "sequence" THEN "JsValue"
    ELSE IF t.nullable THEN mapIdlTypeForFFI([t EXCEPT !.nullable = FALSE])
    ELSE TableOrVerbatim(primitives, TypeNameOrJsValue(t))

------------------------------------------------------------------------------
(* Default-value materializer: getDefaultValue *)

\* The default descriptors drawn for the inputs: undefined, null (what webidl2
\* stores when no default is declared), and one object per literal kind.
Undefined == [kind |-> "undefined"]
Null == [kind |-> "null"]
DefaultObject(type, value) == [kind |-> "object", type |-> type, value |-> value]

DefaultDescriptors ==
    <<Undefined, Null,
      DefaultObject("boolean", TRUE), DefaultObject("boolean", FALSE),
      DefaultObject("number", "5"), DefaultObject("string", "abc"),
      DefaultObject("null", Null), DefaultObject("sequence", <<>>)>>

\* Array.isArray(idlType.idlType) ? idlType.idlType[0]?.idlType : idlType.idlType,
\* as far as the comparisons that follow can tell: an array equals no string.
DefaultTypeName(t) ==
    IF t.idlType.isArray
    THEN IF t.idlType.items = <<>> THEN "undefined value"
         ELSE IF t.idlType.items[1].idlType.isArray THEN "array value"
              ELSE t.idlType.items[1].idlType.str
    ELSE t.idlType.str

\* The type-based defaults of getDefaultValue, lines 54-65.
TypeBasedDefault(t) ==
    LET typeName == DefaultTypeName(t)
    IN  IF typeName = "boolean" THEN "false"
        ELSE IF typeName = "DOMString" \/ typeName = "USVString" \/ typeName = "ByteString"
             THEN "\"\""
        ELSE IF typeName \in {"long", "short", "byte", "octet", "unsigned short", "unsigned long"}
             THEN "0"
        ELSE IF typeName \in {"double", "float"} THEN "0.0"
        ELSE "None"

\* A materializer that prints a string default without its quotes.
getDefaultValueUnquoted(t, defaultValue) ==
    IF defaultValue.kind = "object" /\ defaultValue.type = "boolean"
    THEN IF defaultValue.value THEN "true" ELSE "false"
    ELSE IF defaultValue.kind = "object" /\ defaultValue.type \in {"number", "string"}
    THEN defaultValue.value
    ELSE IF defaultValue.kind = "object" /\ defaultValue.type = "null"
    THEN "None"
    ELSE TypeBasedDefault(t)

\* getDefaultValue(idlType, defaultValue)
getDefaultValue(t, defaultValue) ==
    IF defaultValue.kind = "object" /\ defaultValue.type = "boolean"
    THEN IF defaultValue.value THEN "true" ELSE "false"
    ELSE IF defaultValue.kind = "object" /\ defaultValue.type = "number"
    THEN defaultValue.value  \* String(value): webidl2 keeps a number's text
    ELSE IF defaultValue.kind = "object" /\ defaultValue.type = "string"
    THEN "\"" \o defaultValue.value \o "\""
    ELSE IF defaultValue.kind = "object" /\ defaultValue.type = "null"
    THEN "None"
    ELSE TypeBasedDefault(t)

------------------------------------------------------------------------------
(* Naming normalizer: toSnakeCase and escapeMoonbitKeyword *)

\* An identifier of the IDL is a sequence of characters; Join gives the string.
RECURSIVE Join(_)
Join(chars) == IF chars = <<>> THEN "" ELSE Head(chars) \o Join(Tail(chars))

\* toLowerCase on the letters A-Z.
LowerOf ==
    ("A" :> "a") @@
    ("B" :> "b") @@
    ("C" :> "c") @@
    ("D" :> "d") @@
    ("E" :> "e") @@
    ("F" :> "f") @@
    ("G" :> "g") @@
    ("H" :> "h") @@
    ("I" :> "i") @@
    ("J" :> "j") @@
    ("K" :> "k") @@
    ("L" :> "l") @@
    ("M" :> "m") @@
    ("N" :> "n") @@
    ("O" :> "o") @@
    ("P" :> "p") @@
    ("Q" :> "q") @@
    ("R" :> "r") @@
    ("S" :> "s") @@
    ("T" :> "t") @@
    ("U" :> "u") @@
    ("V" :> "v") @@
    ("W" :> "w") @@
    ("X" :> "x") @@
    ("Y" :> "y") @@
    ("Z" :> "z")

ToLowerCase(c) == IF c \in DOMAIN LowerOf THEN LowerOf[c] ELSE c

\* A replacement that puts one underscore in front of a run of upper-case
\* letters instead of one in front of each.
RECURSIVE UnderscoreBeforeRun(_)
UnderscoreBeforeRun(chars) ==
    IF chars = <<>> THEN <<>>
    ELSE LET front == SubSeq(chars, 1, Len(chars) - 1)
             last == chars[Len(chars)]
         IN  UnderscoreBeforeRun(front)
             \o (IF last \in DOMAIN LowerOf
                    /\ (front = <<>> \/ front[Len(front)] \notin DOMAIN LowerOf)
                 THEN <<"_", last>>
                 ELSE <<last>>)

\* .replace(/([A-Z])/g, '_$1'): an underscore in front of every upper-case letter.
RECURSIVE UnderscoreBeforeUpper(_)
UnderscoreBeforeUpper(chars) ==
    IF chars = <<>> THEN <<>>
    ELSE (IF Head(chars) \in DOMAIN LowerOf THEN <<"_", Head(chars)>> ELSE <<Head(chars)>>)
         \o UnderscoreBeforeUpper(Tail(chars))

\* .replace(/^_/, ''): one leading underscore removed.
StripLeadingUnderscore(chars) ==
    IF chars # <<>> /\ Head(chars) = "_" THEN Tail(chars) ELSE chars

\* toSnakeCase(str), as a string
toSnakeCase(chars) ==
    LET marked == UnderscoreBeforeUpper(chars)
        lowered == [k \in 1..Len(marked) |-> ToLowerCase(marked[k])]
    IN  Join(StripLeadingUnderscore(lowered))

\* A keyword set that also holds an escaped keyword.
keywordsWithEscaped ==
    {"type", "match", "default", "pub", "priv", "fn", "let", "mut",
     "struct", "enum", "trait", "impl", "if", "else", "while", "for",
     "break", "continue", "return", "try", "catch", "throw", "async", "await",
     "type_"}

\* const keywords = new Set([...]) of escapeMoonbitKeyword
keywords ==
    {"type", "match", "default", "pub", "priv", "fn", "let", "mut",
     "struct", "enum", "trait", "impl", "if", "else", "while", "for",
     "break", "continue", "return", "try", "catch", "throw", "async", "await"}

\* escapeMoonbitKeyword(name)
escapeMoonbitKeyword(name) == IF name \in keywords THEN name \o "_" ELSE name

------------------------------------------------------------------------------
(* Interface generator: generateInterface.  Every pushed line is a record:   *)
(* k names the template literal, the other fields are its holes.             *)

\* `${name}${marker} : ${type}`, one entry of a parameter list
Param(name, marker, type) == [name |-> name, marker |-> marker, type |-> type]

BlankLine == [k |-> "blank"]
CloseLine == [k |-> "close"]
ExternalLine == [k |-> "external"]
DocLine(name, what) == [k |-> "doc", name |-> name, what |-> what]
TypeLine(name) == [k |-> "type", name |-> name]
ToJsImplLine(name) == [k |-> "to_js_impl", name |-> name]
TraitOpenLine(trait) == [k |-> "trait_open", trait |-> trait]
TraitImplLine(trait, name) == [k |-> "trait_impl", trait |-> trait, name |-> name]

\* `  ${name}(${params}) -> ${ret} = _`
TraitMethodLine(name, params, ret) ==
    [k |-> "trait_method", name |-> name, params |-> params, ret |-> ret]

\* A foreign declaration bound to a target named like the declaration itself.
FfiLineBoundToOwnName(name, params, ret, module, target) ==
    [k |-> "ffi", name |-> name, params |-> params, ret |-> ret,
     module |-> module, target |-> name]

\* `fn ${name}(${params}) -> ${ret} = "${module}" "${target}"`
FfiLine(name, params, ret, module, target) ==
    [k |-> "ffi", name |-> name, params |-> params, ret |-> ret,
     module |-> module, target |-> target]

\* `impl ${trait} with ${name}(${params}) -> ${ret} {`
ImplOpenLine(trait, name, params, ret) ==
    [k |-> "impl_open", trait |-> trait, name |-> name, params |-> params, ret |-> ret]

\* `  ${callee}(${args})`, followed by ` |> ${pipe}` when pipe is not empty
ImplBodyLine(callee, args, pipe) ==
    [k |-> "impl_body", callee |-> callee, args |-> args, pipe |-> pipe]

\* member.idlType ? mapIdlType(member.idlType) : fallback
MapIdlTypeOr(idl, fallback) == IF idl = Undefined THEN fallback ELSE mapIdlType(idl)

\* member.idlType ? mapIdlTypeForFFI(member.idlType) : fallback
MapIdlTypeForFFIOr(idl, fallback) ==
    IF idl = Undefined THEN fallback ELSE mapIdlTypeForFFI(idl)

\* The trait signature parameters of an operation: self, then one per argument
\* with its optional marker (lines 271-277 and 362-368).
SemanticParams(arguments) ==
    <<Param("self", "", "Self")>>
    \o [a \in 1..Len(arguments) |->
          Param(escapeMoonbitKeyword(toSnakeCase(arguments[a].name)),
                IF arguments[a].optional THEN "?" ELSE "",
                mapIdlType(arguments[a].idlType))]

\* Trait lines that declare a setter for every attribute, readonly or not.
TraitLinesSetterAlways(member) ==
    IF member.type = "attribute"
    THEN LET attrName == escapeMoonbitKeyword(toSnakeCase(member.name))
             returnType == MapIdlTypeOr(member.idlType, "JsValue")
         IN  <<TraitMethodLine(attrName, <<Param("self", "", "Self")>>, returnType),
               TraitMethodLine("set_" \o attrName,
                   <<Param("self", "", "Self"), Param("value", "", returnType)>>,
                   "Unit")>>
    ELSE IF member.type = "operation" /\ member.name # <<>>
    THEN <<TraitMethodLine(escapeMoonbitKeyword(toSnakeCase(member.name)),
               SemanticParams(member.arguments),
               MapIdlTypeOr(member.idlType, "Unit"))>>
    ELSE <<>>

\* The lines of the trait body for one member (lines 254-284).
TraitLines(member) ==
    IF member.type = "attribute"
    THEN LET attrName == escapeMoonbitKeyword(toSnakeCase(member.name))
             returnType == MapIdlTypeOr(member.idlType, "JsValue")
         IN  <<TraitMethodLine(attrName, <<Param("self", "", "Self")>>, returnType)>>
             \o (IF ~member.readonly
                 THEN <<TraitMethodLine("set_" \o attrName,
                           <<Param("self", "", "Self"), Param("value", "", returnType)>>,
                           "Unit")>>
                 ELSE <<>>)
    ELSE IF member.type = "operation" /\ member.name # <<>>
    THEN <<TraitMethodLine(escapeMoonbitKeyword(toSnakeCase(member.name)),
               SemanticParams(member.arguments),
               MapIdlTypeOr(member.idlType, "Unit"))>>
    ELSE <<>>

\* The FFI helper and the trait implementation of an attribute (lines 295-331).
AttributeLines(member, interfaceName, traitName) ==
    LET attrName == escapeMoonbitKeyword(toSnakeCase(member.name))
        returnType == MapIdlTypeOr(member.idlType, "JsValue")
        ffiReturnType == MapIdlTypeForFFIOr(member.idlType, "JsValue")
        ffiName == attrName \o "_ffi"
        ffiModule == "webapi_" \o interfaceName
        setterFfiName == "set_" \o attrName \o "_ffi"
        ffiParamType == MapIdlTypeForFFIOr(member.idlType, "JsValue")
    IN  <<FfiLine(ffiName, <<Param("obj", "", "JsValue")>>, ffiReturnType,
                  ffiModule, Join(member.name)),
          BlankLine,
          ImplOpenLine(traitName, attrName, <<Param("self", "", "Self")>>, returnType),
          ImplBodyLine(ffiName, <<"self.to_js()">>,
              IF ffiReturnType # returnType THEN returnType \o "::from_js" ELSE ""),
          CloseLine,
          BlankLine>>
        \o (IF ~member.readonly
            THEN <<FfiLine(setterFfiName,
                       <<Param("obj", "", "JsValue"), Param("value", "", ffiParamType)>>,
                       "Unit", ffiModule, "set_" \o Join(member.name)),
                   BlankLine,
                   ImplOpenLine(traitName, "set_" \o attrName,
                       <<Param("self", "", "Self"), Param("value", "", returnType)>>,
                       "Unit"),
                   ImplBodyLine(setterFfiName,
                       <<"self.to_js()",
                         IF ffiParamType # returnType THEN "value.to_js()" ELSE "value">>,
                       ""),
                   CloseLine,
                   BlankLine>>
            ELSE <<>>)

\* Operation lines that pass every argument by its bare name.
OperationLinesBareArguments(member, interfaceName, traitName) ==
    LET methodName == escapeMoonbitKeyword(toSnakeCase(member.name))
        returnType == MapIdlTypeOr(member.idlType, "Unit")
        ffiName == methodName \o "_ffi"
        ffiModule == "webapi_" \o interfaceName
        arguments == member.arguments
        paramName(a) == escapeMoonbitKeyword(toSnakeCase(arguments[a].name))
        ffiParams ==
            <<Param("obj", "", "JsValue")>>
            \o [a \in 1..Len(arguments) |->
                  Param(paramName(a), "", mapIdlType(arguments[a].idlType))]
        callArgs == <<"self.to_js()">> \o [a \in 1..Len(arguments) |-> paramName(a)]
    IN  <<FfiLine(ffiName, ffiParams, returnType, ffiModule, Join(member.name)),
          BlankLine,
          ImplOpenLine(traitName, methodName, SemanticParams(arguments), returnType),
          ImplBodyLine(ffiName, callArgs, ""),
          CloseLine,
          BlankLine>>

\* The FFI helper and the trait implementation of a named operation (lines 332-374).
OperationLines(member, interfaceName, traitName) ==
    LET methodName == escapeMoonbitKeyword(toSnakeCase(member.name))
        returnType == MapIdlTypeOr(member.idlType, "Unit")
        ffiName == methodName \o "_ffi"
        ffiModule == "webapi_" \o interfaceName
        arguments == member.arguments
        paramName(a) == escapeMoonbitKeyword(toSnakeCase(arguments[a].name))
        ffiParams ==
            <<Param("obj", "", "JsValue")>>
            \o [a \in 1..Len(arguments) |->
                  Param(paramName(a), "", mapIdlType(arguments[a].idlType))]
        callArgs ==
            <<"self.to_js()">>
            \o [a \in 1..Len(arguments) |->
                  IF arguments[a].optional
                  THEN paramName(a) \o ".or("
                       \o getDefaultValue(arguments[a].idlType, arguments[a].default)
                       \o ")"
                  ELSE paramName(a)]
    IN  <<FfiLine(ffiName, ffiParams, returnType, ffiModule, Join(member.name)),
          BlankLine,
          ImplOpenLine(traitName, methodName, SemanticParams(arguments), returnType),
          ImplBodyLine(ffiName, callArgs, ""),
          CloseLine,
          BlankLine>>

\* A second loop that does not test the name of an operation.
ImplLinesUnnamedToo(member, interfaceName, traitName) ==
    IF member.type = "attribute" THEN AttributeLines(member, interfaceName, traitName)
    ELSE IF member.type = "operation"
    THEN OperationLines(member, interfaceName, traitName)
    ELSE <<>>

\* The second loop over the methods (lines 294-375), for one member.
ImplLines(member, interfaceName, traitName) ==
    IF member.type = "attribute" THEN AttributeLines(member, interfaceName, traitName)
    ELSE IF member.type = "operation" /\ member.name # <<>>
    THEN OperationLines(member, interfaceName, traitName)
    ELSE <<>>

\* generateInterface(def): the lines that are joined into the returned text.
generateInterface(def) ==
    LET interfaceName == Join(def.name)
        traitName == "T" \o interfaceName
        methods == SelectSeq(def.members, LAMBDA m : m.type # "constructor")
    IN  <<DocLine(interfaceName, "interface"), BlankLine,
          ExternalLine, TypeLine(interfaceName), BlankLine,
          ToJsImplLine(interfaceName), BlankLine,
          TraitOpenLine(traitName)>>
        \o Flatten([m \in 1..Len(methods) |-> TraitLines(methods[m])])
        \o <<CloseLine, BlankLine,
             TraitImplLine(traitName, interfaceName), BlankLine>>
        \o Flatten([m \in 1..Len(methods) |->
                       ImplLines(methods[m], interfaceName, traitName)])

------------------------------------------------------------------------------
(* Dictionary generator: generateDictionary and mapDefaultValue *)

\* A constructor parameter that is marked optional whatever the member says.
PubParamAlwaysOptional(name, marker, type, defaultVal) ==
    [name |-> name, marker |-> "?", type |-> type, defaultVal |-> defaultVal]

\* `${paramName}${optMarker} : ${paramType}${defaultVal}`, one entry of the
\* parameter list of the public constructor
PubParam(name, marker, type, defaultVal) ==
    [name |-> name, marker |-> marker, type |-> type, defaultVal |-> defaultVal]

\* `pub fn ${name}(${params}) -> ${ret} {`
PubFnOpenLine(name, params, ret) ==
    [k |-> "pub_fn_open", name |-> name, params |-> params, ret |-> ret]

\* `pub fn default_${pubName}() -> ${dictName} = "webapi_Dictionary" "empty"`
DefaultFactoryLine(pubName, dictName) ==
    [k |-> "default_factory", name |-> "default_" \o pubName, ret |-> dictName,
     module |-> "webapi_Dictionary", target |-> "empty"]

\* mapDefaultValue(defaultVal)
mapDefaultValue(defaultVal) ==
    IF defaultVal.kind # "object" THEN "None"
    ELSE IF defaultVal.type = "number" THEN defaultVal.value
    ELSE IF defaultVal.type = "string" THEN "\"" \o defaultVal.value \o "\""
    ELSE IF defaultVal.type = "boolean"
    THEN IF defaultVal.value THEN "true" ELSE "false"
    ELSE "None"

\* generateDictionary(def): the lines that are joined into the returned text.
generateDictionary(def) ==
    LET dictName == Join(def.name)
        ffiName == toSnakeCase(def.name) \o "_ffi"
        paramName(m) == escapeMoonbitKeyword(toSnakeCase(def.members[m].name))
        params ==
            [m \in 1..Len(def.members) |->
                Param(paramName(m), "", mapIdlType(def.members[m].idlType))]
        pubParams ==
            [m \in 1..Len(def.members) |->
                PubParam(paramName(m),
                         IF def.members[m].required THEN "" ELSE "?",
                         mapIdlType(def.members[m].idlType),
                         IF def.members[m].default.kind = "object"
                         THEN " = " \o mapDefaultValue(def.members[m].default)
                         ELSE "")]
        pubName == toSnakeCase(def.name)
    IN  <<DocLine(dictName, "dictionary"), BlankLine,
          ExternalLine, TypeLine(dictName), BlankLine,
          FfiLine(ffiName, params, dictName, "webapi_" \o dictName, "new"), BlankLine,
          PubFnOpenLine(pubName, pubParams, dictName),
          ImplBodyLine(ffiName, [m \in 1..Len(def.members) |-> paramName(m)], ""),
          CloseLine, BlankLine,
          DefaultFactoryLine(pubName, dictName), BlankLine>>

------------------------------------------------------------------------------
(* Partial-definition merger: mergePartialDefinitions *)

DefNames == {"Foo", "Bar"}

\* def.type values: the three kinds the merger handles, and one kind it passes through.
\* An interface mixin also carries members and may be partial.
MergeableTypes == {"interface", "dictionary", "namespace"}
OtherTypes == {"interface mixin"}
DefTypes == MergeableTypes \cup OtherTypes

\* A definition as JSON.parse delivers it.  Its members and extended attributes are
\* objects of their own (every parsed object is distinct): the definition at
\* index k declares the member k and carries the extended attribute k.
DefinitionAt(k, t, n, p) ==
    [type |-> t, name |-> n, partial |-> p, members |-> <<k>>, extAttrs |-> <<k>>]

\* The choices for one definition: its type, name and partial flag.
DefinitionChoices == DefTypes \X DefNames \X BOOLEAN

\* The list of definitions built from one choice per position.
DefinitionList(f) ==
    [k \in DOMAIN f |-> DefinitionAt(k, f[k][1], f[k][2], f[k][3])]

\* new Map(): the entries in insertion order, each [key, value]; the values are
\* references (indices) into the list of parsed definitions.
MapHas(m, key) == \E e \in 1..Len(m) : m[e].key = key

\* Map.prototype.get; 0 stands for undefined.
MapGet(m, key) ==
    IF MapHas(m, key)
    THEN m[CHOOSE e \in 1..Len(m) : m[e].key = key].value
    ELSE 0

\* A Map whose set() never replaces an entry already present.
MapSetKeepsFirst(m, key, value) ==
    IF MapHas(m, key) THEN m ELSE Append(m, [key |-> key, value |-> value])

\* A Map whose set() moves a replaced key to the end of the iteration order.
MapSetMovesToEnd(m, key, value) ==
    SelectSeq(m, LAMBDA e : e.key # key) \o <<[key |-> key, value |-> value]>>

\* Map.prototype.set: a key already present keeps its place in the iteration
\* order and gets the new value; a new key is appended.
MapSet(m, key, value) ==
    IF MapHas(m, key)
    THEN [e \in 1..Len(m) |->
            IF m[e].key = key THEN [key |-> key, value |-> value] ELSE m[e]]
    ELSE Append(m, [key |-> key, value |-> value])

\* Map.prototype.values, in iteration order.
MapValues(m) == [e \in 1..Len(m) |-> m[e].value]

IsMergeable(def) ==
    def.type = "interface" \/ def.type = "dictionary" \/ def.type = "namespace"

\* The first loop: separate base, partial and other definitions.
RECURSIVE ScanDefinitions(_, _, _)
ScanDefinitions(defs, k, st) ==
    IF k > Len(defs) THEN st
    ELSE ScanDefinitions(defs, k + 1,
            IF IsMergeable(defs[k])
            THEN IF defs[k].partial
                 THEN [st EXCEPT !.partialDefinitions = Append(@, k)]
                 ELSE [st EXCEPT !.baseDefinitions = MapSet(@, defs[k].name, k)]
            ELSE [st EXCEPT !.otherDefinitions = Append(@, k)])

\* A merge that puts the partial's members in front of the base's.
PushMembersInFront(heap, base, partial) ==
    [heap EXCEPT ![base].members = heap[partial].members \o @,
                 ![base].extAttrs = @ \o heap[partial].extAttrs]

\* base.members.push(...partial.members); base.extAttrs.push(...partial.extAttrs).
\* Both lists are arrays in every parsed definition, so both guards pass.
PushMembers(heap, base, partial) ==
    [heap EXCEPT ![base].members = @ \o heap[partial].members,
                 ![base].extAttrs = @ \o heap[partial].extAttrs]

\* A merger that keeps an orphan partial as a definition of its own.
OrphanKept(st, partial) ==
    [st EXCEPT !.otherDefinitions = Append(@, partial)]

\* The else branch of the second loop: console.warn, nothing else.
OrphanPartial(st, partial) ==
    [st EXCEPT !.warnings = Append(@,
        [type |-> st.heap[partial].type, name |-> st.heap[partial].name])]

\* The second loop: merge partials into their base definitions.
RECURSIVE MergePartials(_, _)
MergePartials(st, j) ==
    IF j > Len(st.partialDefinitions) THEN st
    ELSE LET partial == st.partialDefinitions[j]
             base == MapGet(st.baseDefinitions, st.heap[partial].name)
         IN  MergePartials(
                IF base # 0
                THEN [st EXCEPT !.heap = PushMembers(@, base, partial)]
                ELSE OrphanPartial(st, partial),
                j + 1)

\* A merger that leaves the partial definitions in the list it returns.
PartialsLeftIn(st) ==
    [k \in 1..Len(st.baseDefinitions) |-> st.heap[MapValues(st.baseDefinitions)[k]]]
    \o [k \in 1..Len(st.partialDefinitions) |-> st.heap[st.partialDefinitions[k]]]
    \o [k \in 1..Len(st.otherDefinitions) |-> st.heap[st.otherDefinitions[k]]]

\* return [...baseDefinitions.values(), ...otherDefinitions]
MergedList(st) ==
    [k \in 1..Len(st.baseDefinitions) |-> st.heap[MapValues(st.baseDefinitions)[k]]]
    \o [k \in 1..Len(st.otherDefinitions) |-> st.heap[st.otherDefinitions[k]]]

\* mergePartialDefinitions(definitions): the list returned, the warnings logged
\* and the definitions as the in-place pushes leave them.
mergePartialDefinitions(defs) ==
    LET scanned == ScanDefinitions(defs, 1,
                      [heap |-> defs, baseDefinitions |-> <<>>,
                       partialDefinitions |-> <<>>, otherDefinitions |-> <<>>,
                       warnings |-> <<>>])
        st == MergePartials(scanned, 1)
    IN  [result |-> MergedList(st), warnings |-> st.warnings, definitions |-> st.heap]

------------------------------------------------------------------------------
(* File generator: generateMoonbitFile and main *)

\* The three lines pushed before the loop.
HeaderLines ==
    <<[k |-> "header", text |-> "Generated WebIDL bindings"],
      [k |-> "header", text |-> "DO NOT EDIT - auto-generated from WebIDL"],
      BlankLine>>

\* lines.push(generateInterface(def)) / lines.push(generateDictionary(def)):
\* one entry of the buffer, the text of one definition.
BlockLine(lines) == [k |-> "block", lines |-> lines]

\* console.error(`Error generating ${def.type} ${def.name}:`, err.message)
ErrorLine(def) == [type |-> def.type, name |-> Join(def.name)]

\* generateInterface throws a TypeError when mapIdlType is handed the missing
\* idlType of an operation argument (lines 274 and 345 read idlType.union).
generateInterfaceThrows(def) ==
    \E m \in 1..Len(def.members) :
        /\ def.members[m].type = "operation"
        /\ def.members[m].name # <<>>
        /\ \E a \in 1..Len(def.members[m].arguments) :
               def.members[m].arguments[a].idlType = Undefined

\* generateDictionary throws a TypeError when mapIdlType is handed the missing
\* idlType of a member (line 400).
generateDictionaryThrows(def) ==
    \E m \in 1..Len(def.members) : def.members[m].idlType = Undefined

\* A loop that is left at the first exception: try around the whole loop.
RECURSIVE GenerateLoopUntilThrow(_, _, _)
GenerateLoopUntilThrow(defs, k, st) ==
    IF k > Len(defs) THEN st
    ELSE LET def == defs[k]
         IN  IF def.type = "interface" /\ ~def.partial
             THEN IF generateInterfaceThrows(def)
                  THEN [st EXCEPT !.errors = Append(@, ErrorLine(def))]
                  ELSE GenerateLoopUntilThrow(defs, k + 1,
                          [st EXCEPT !.lines = Append(@, BlockLine(generateInterface(def)))])
             ELSE IF def.type = "dictionary" /\ ~def.partial
             THEN IF generateDictionaryThrows(def)
                  THEN [st EXCEPT !.errors = Append(@, ErrorLine(def))]
                  ELSE GenerateLoopUntilThrow(defs, k + 1,
                          [st EXCEPT !.lines = Append(@, BlockLine(generateDictionary(def)))])
             ELSE GenerateLoopUntilThrow(defs, k + 1, st)

\* for (const def of definitions) { try { ... } catch (err) { console.error } }
RECURSIVE GenerateLoop(_, _, _)
GenerateLoop(defs, k, st) ==
    IF k > Len(defs) THEN st
    ELSE LET def == defs[k]
         IN  GenerateLoop(defs, k + 1,
                IF def.type = "interface" /\ ~def.partial
                THEN IF generateInterfaceThrows(def)
                     THEN [st EXCEPT !.errors = Append(@, ErrorLine(def))]
                     ELSE [st EXCEPT !.lines = Append(@, BlockLine(generateInterface(def)))]
                ELSE IF def.type = "dictionary" /\ ~def.partial
                THEN IF generateDictionaryThrows(def)
                     THEN [st EXCEPT !.errors = Append(@, ErrorLine(def))]
                     ELSE [st EXCEPT !.lines = Append(@, BlockLine(generateDictionary(def)))]
                ELSE st)

\* generateMoonbitFile(definitions, outputPath): the file written and the
\* errors logged.
generateMoonbitFile(defs) ==
    LET st == GenerateLoop(defs, 1, [lines |-> HeaderLines, errors |-> <<>>])
    IN  [outputFile |-> [written |-> TRUE, lines |-> st.lines], errors |-> st.errors]

\* The names main() selects for event.mbt.
EventNames ==
    {<<"E", "v", "e", "n", "t">>,
     <<"E", "v", "e", "n", "t", "I", "n", "i", "t">>,
     <<"E", "v", "e", "n", "t", "T", "a", "r", "g", "e", "t">>}

\* mergedDefinitions.filter(d => d.name === 'Event' || ...) after the merge
EventDefs(defs) ==
    SelectSeq(mergePartialDefinitions(defs).result, LAMBDA d : d.name \in EventNames)

\* main(), from JSON.parse on: merge, select the event definitions, generate
\* event.mbt when there are any.
main(defs) ==
    LET eventDefs == EventDefs(defs)
    IN  IF Len(eventDefs) > 0
        THEN generateMoonbitFile(eventDefs)
        ELSE [outputFile |-> [written |-> FALSE, lines |-> <<>>], errors |-> <<>>]

------------------------------------------------------------------------------
(* SpecMerge: main() loads a list of definitions and merges it; the merged   *)
(* list is then merged once more.                                            *)

\* No type has been handed to a mapper.
TypesIdle ==
    /\ argType = Plain("undefined", FALSE)
    /\ argDefault = Undefined
    /\ called = ""
    /\ returned = ""

\* No definition has been handed to a generator.
GenIdle ==
    /\ given = [type |-> "interface", name |-> <<>>, members |-> <<>>]
    /\ generated = <<>>

\* generateMoonbitFile has not been called.
FileIdle ==
    /\ inputDefinitions = <<>>
    /\ outputFile = [written |-> FALSE, lines |-> <<>>]
    /\ errors = <<>>

\* fetch_webref has not selected any file.
FetchIdle ==
    /\ filesToCopy = <<>>
    /\ summary = [total |-> 0, success |-> 0, failed |-> 0, files |-> <<>>]
    /\ copied = {}
    /\ fetchPc = [at |-> 0, await |-> "idle"]

\* parse_idl has not been started.
ParseIdle ==
    /\ inputFiles = <<>>
    /\ taskPc = <<>>
    /\ results = <<>>
    /\ outputs = {}
    /\ printed = [done |-> FALSE, successful |-> 0, failed |-> 0, total |-> 0, totalDefs |-> 0]

\* No identifier has been handed to the naming normalizer.
NamesIdle ==
    /\ identifier = <<>>
    /\ argName = ""

InitMerge ==
    /\ TypesIdle
    /\ GenIdle
    /\ FileIdle
    /\ FetchIdle
    /\ ParseIdle
    /\ NamesIdle
    /\ \E len \in 0..MaxDefs : \E f \in [1..len -> DefinitionChoices] :
          /\ definitions = DefinitionList(f)
          /\ loaded = DefinitionList(f)
    /\ merged = <<>>
    /\ warnings = <<>>
    /\ firstMerged = <<>>
    /\ pc = "loaded"

\* const mergedDefinitions = mergePartialDefinitions(definitions)
Merge ==
    /\ pc = "loaded"
    /\ LET r == mergePartialDefinitions(definitions)
       IN  /\ definitions' = r.definitions
           /\ merged' = r.result
           /\ warnings' = r.warnings
           /\ firstMerged' = r.result
    /\ pc' = "merged"
    /\ UNCHANGED <<loaded, typeVars, genVars, fileVars, fetchVars, parseVars, nameVars>>

\* mergePartialDefinitions applied to the list a merge returned
Remerge ==
    /\ pc = "merged"
    /\ LET r == mergePartialDefinitions(merged)
       IN  /\ definitions' = r.definitions
           /\ merged' = r.result
           /\ warnings' = r.warnings
    /\ pc' = "remerged"
    /\ UNCHANGED <<loaded, firstMerged, typeVars, genVars, fileVars, fetchVars, parseVars, nameVars>>

NextMerge == Merge \/ Remerge

SpecMerge == InitMerge /\ [][NextMerge]_vars

------------------------------------------------------------------------------
(* SpecTypes: one IDL type is drawn and handed to mapIdlType, to             *)
(* mapIdlTypeForFFI or, with a default descriptor, to getDefaultValue.       *)

\* No list of definitions has been loaded.
MergeIdle ==
    /\ loaded = <<>>
    /\ definitions = <<>>
    /\ merged = <<>>
    /\ warnings = <<>>
    /\ firstMerged = <<>>
    /\ pc = "idle"

InitTypes ==
    /\ MergeIdle
    /\ GenIdle
    /\ FileIdle
    /\ FetchIdle
    /\ ParseIdle
    /\ NamesIdle
    /\ \E depth \in 0..MaxTypeDepth :
           \E f \in [1..depth -> Wrappers \X BOOLEAN] :
               \E n \in BaseNames : \E nullable \in BOOLEAN :
                   argType = Nest(f, Plain(n, nullable))
    /\ argDefault = Undefined
    /\ called = ""
    /\ returned = ""

CallMapIdlType ==
    /\ called = ""
    /\ called' = "mapIdlType"
    /\ returned' = mapIdlType(argType)
    /\ UNCHANGED <<argType, argDefault, mergeVars, genVars, fileVars, fetchVars, parseVars, nameVars>>

CallMapIdlTypeForFFI ==
    /\ called = ""
    /\ called' = "mapIdlTypeForFFI"
    /\ returned' = mapIdlTypeForFFI(argType)
    /\ UNCHANGED <<argType, argDefault, mergeVars, genVars, fileVars, fetchVars, parseVars, nameVars>>

CallGetDefaultValue ==
    /\ called = ""
    /\ \E d \in 1..Len(DefaultDescriptors) :
           /\ argDefault' = DefaultDescriptors[d]
           /\ returned' = getDefaultValue(argType, DefaultDescriptors[d])
    /\ called' = "getDefaultValue"
    /\ UNCHANGED <<argType, mergeVars, genVars, fileVars, fetchVars, parseVars, nameVars>>

\* mapDefaultValue(member.default) for a member of the drawn type
CallMapDefaultValue ==
    /\ called = ""
    /\ \E d \in 1..Len(DefaultDescriptors) :
           /\ argDefault' = DefaultDescriptors[d]
           /\ returned' = mapDefaultValue(DefaultDescriptors[d])
    /\ called' = "mapDefaultValue"
    /\ UNCHANGED <<argType, mergeVars, genVars, fileVars, fetchVars, parseVars, nameVars>>

NextTypes ==
    CallMapIdlType \/ CallMapIdlTypeForFFI \/ CallGetDefaultValue \/ CallMapDefaultValue

SpecTypes == InitTypes /\ [][NextTypes]_vars

------------------------------------------------------------------------------
(* Claims about the type mapper and the default-value materializer *)

IsPromise(t) == ~t.union /\ t.generic = "Promise"
IsSequence(t) == ~t.union /\ t.generic = "sequence"
IsPlain(t) == ~t.union /\ t.generic = ""
NoDefault == argDefault.kind \in {"undefined", "null"}

\* C3: for every Promise type, whatever its element and nullability, mapIdlType
\* and mapIdlTypeForFFI both return JsValue.
C3_PromiseIsJsValue ==
    (called \in {"mapIdlType", "mapIdlTypeForFFI"} /\ IsPromise(argType))
        => returned = "JsValue"

\* C4: for every sequence type, at any nesting depth of its element,
\* mapIdlTypeForFFI returns JsValue and mapIdlType returns Array[...] around the
\* semantic type of the element.
C4_SequenceMapping ==
    /\ (called = "mapIdlTypeForFFI" /\ IsSequence(argType)) => returned = "JsValue"
    /\ (called = "mapIdlType" /\ IsSequence(argType))
           => returned = "Array[" \o mapIdlType(argType.idlType.items[1]) \o "]"

\* A nullable sequence of sequences has been mapped for the foreign side.
C4_Witness ==
    /\ called = "mapIdlTypeForFFI"
    /\ IsSequence(argType)
    /\ argType.nullable
    /\ IsSequence(argType.idlType.items[1])
    /\ returned = "JsValue"

\* C9: with no default descriptor getDefaultValue returns None for every named
\* type, every union and every sequence.
C9_ComplexDefaultIsNone ==
    (called = "getDefaultValue" /\ NoDefault
        /\ (argType.union \/ IsSequence(argType)
            \/ (IsPlain(argType) /\ argType.idlType.str \notin Range(PrimitiveNames))))
        => returned = "None"

\* C10: with no default descriptor getDefaultValue returns false for boolean, ""
\* for the three string types, 0 for every integer of the type table and 0.0 for
\* every float of the type table.
C10_PrimitiveDefaults ==
    (called = "getDefaultValue" /\ NoDefault /\ IsPlain(argType)) =>
        LET n == argType.idlType.str
        IN  /\ n = "boolean" => returned = "false"
            /\ n \in {"DOMString", "USVString", "ByteString"} => returned = "\"\""
            /\ n \in {"byte", "octet", "short", "unsigned short", "long",
                      "unsigned long", "long long", "unsigned long long"}
                   => returned = "0"
            /\ n \in {"float", "double", "unrestricted float", "unrestricted double"}
                   => returned = "0.0"

\* A default descriptor was handed over: defaultValue is neither undefined nor null.
ExplicitDefault == argDefault.kind = "object"

\* The literal kinds getDefaultValue prints from the descriptor itself.
LiteralKinds == {"boolean", "number", "string", "null"}

NonNullable(t) == [t EXCEPT !.nullable = FALSE]

\* The type with nullable = false on itself and on every type nested in it.
RECURSIVE NowhereNullable(_)
NowhereNullable(t) ==
    IF t.idlType.isArray
    THEN [t EXCEPT !.nullable = FALSE,
                   !.idlType = Arr([i \in 1..Len(t.idlType.items) |->
                                       NowhereNullable(t.idlType.items[i])])]
    ELSE [t EXCEPT !.nullable = FALSE]

C14_PlainNamesAgree ==
    (called \in {"mapIdlType", "mapIdlTypeForFFI"} /\ IsPlain(argType)) =>
        /\ mapIdlTypeForFFI(argType) = mapIdlType(argType)
        /\ returned = (IF argType.idlType.str \in Range(PrimitiveNames)
                       THEN typeMap[argType.idlType.str]
                       ELSE argType.idlType.str)

\* The foreign mapper was given unsigned long long and returned Int64.
C14_Witness ==
    /\ called = "mapIdlTypeForFFI"
    /\ IsPlain(argType)
    /\ argType.idlType.str = "unsigned long long"
    /\ returned = "Int64"

\* C26: for a declared default, mapDefaultValue returns for a member the
\* literal getDefaultValue returns for the same descriptor and the member's
\* type (a sequence default taken with a sequence type).
C26_DictionaryDefaultIsMaterialized ==
    (called = "mapDefaultValue" /\ ExplicitDefault
        /\ (argDefault.type = "sequence" => IsSequence(argType)))
        => returned = getDefaultValue(argType, argDefault)

\* C26 for the literal kinds (not a claim of its own): boolean, number, string
\* and null defaults are printed alike by both functions.
LiteralDefaultsAgree ==
    (called = "mapDefaultValue" /\ ExplicitDefault /\ argDefault.type \in LiteralKinds)
        => returned = getDefaultValue(argType, argDefault)

------------------------------------------------------------------------------
(* SpecGen: one interface or dictionary definition is drawn and handed to    *)
(* generateInterface or generateDictionary.                                  *)

\* The types drawn for attributes, operation results and arguments: a
\* primitive, a nullable interface, a sequence, a Promise and a union.
GenTypes ==
    <<Plain("boolean", FALSE),
      Generic("sequence", FALSE, Plain("Event", FALSE)),
      Plain("Event", TRUE),
      Generic("Promise", FALSE, Plain("undefined", FALSE)),
      Union(FALSE, <<Plain("Event", FALSE), Plain("DOMString", FALSE)>>)>>

\* Index 0 stands for a member without an idlType.
GenType(i) == IF i = 0 THEN Undefined ELSE GenTypes[i]

\* Attribute names: a keyword and a camelCase name.
AttrNames == <<<<"t", "y", "p", "e">>, <<"o", "n", "C", "l", "i", "c", "k">>>>

\* Operation names: a camelCase name and the empty name of a special operation.
OpNames == <<<<"d", "i", "s", "p", "a", "t", "c", "h", "E", "v", "e", "n", "t">>, <<>>>>

\* The name of the argument at a position: a keyword first, then camelCase names.
ArgNames == <<<<"t", "y", "p", "e">>, <<"u", "s", "e", "C", "a", "p", "t", "u", "r", "e">>, <<"o", "p", "t", "i", "o", "n", "s">>>>

\* How an argument is declared: required, optional, optional with a default.
ArgModes ==
    <<[optional |-> FALSE, default |-> Null],
      [optional |-> TRUE, default |-> Null],
      [optional |-> TRUE, default |-> DefaultObject("boolean", FALSE)]>>

\* One argument per position: the index of its type (among the first two drawn
\* types) and of its mode.
ArgSpecs == UNION {[1..n -> (1..2) \X (1..3)] : n \in 0..MaxArgs}

ArgumentsOf(spec) ==
    [a \in 1..Len(spec) |->
        [name |-> ArgNames[((a - 1) % Len(ArgNames)) + 1],
         idlType |-> GenTypes[spec[a][1]],
         optional |-> ArgModes[spec[a][2]].optional,
         default |-> ArgModes[spec[a][2]].default]]

\* The choices for one member: its kind, the index of its name, the index of its
\* type, its readonly flag and its arguments.
MemberChoices ==
    ({"attribute"} \X (1..2) \X (0..5) \X BOOLEAN \X {<<>>})
    \cup ({"operation"} \X (1..2) \X {0, 1, 2} \X {FALSE} \X ArgSpecs)
    \cup ({"const", "constructor"} \X {1} \X {1} \X {FALSE} \X {<<>>})

MemberOf(c) ==
    IF c[1] = "attribute"
    THEN [type |-> "attribute", name |-> AttrNames[c[2]], idlType |-> GenType(c[3]),
          readonly |-> c[4]]
    ELSE IF c[1] = "operation"
    THEN [type |-> "operation", name |-> OpNames[c[2]], idlType |-> GenType(c[3]),
          arguments |-> ArgumentsOf(c[5])]
    ELSE IF c[1] = "const"
    THEN [type |-> "const", name |-> <<"N", "O", "N", "E">>, idlType |-> GenTypes[1]]
    ELSE [type |-> "constructor", arguments |-> <<>>]

\* Dictionary member names: a keyword and a camelCase name.
FieldNames == <<<<"t", "y", "p", "e">>, <<"u", "s", "e", "C", "a", "p", "t", "u", "r", "e">>>>

\* How a dictionary member is declared: required, optional, optional with a
\* boolean, a string or a sequence default.
FieldModes ==
    <<[required |-> TRUE, default |-> Null],
      [required |-> FALSE, default |-> Null],
      [required |-> FALSE, default |-> DefaultObject("boolean", FALSE)],
      [required |-> FALSE, default |-> DefaultObject("string", "abc")],
      [required |-> FALSE, default |-> DefaultObject("sequence", <<>>)]>>

\* The choices for one dictionary member: the index of its name, of its type
\* and of its mode.
FieldChoices == (1..Len(FieldNames)) \X (1..Len(GenTypes)) \X (1..Len(FieldModes))

FieldOf(c) ==
    [type |-> "field", name |-> FieldNames[c[1]], idlType |-> GenTypes[c[2]],
     required |-> FieldModes[c[3]].required, default |-> FieldModes[c[3]].default]

InitGen ==
    /\ MergeIdle
    /\ TypesIdle
    /\ FileIdle
    /\ FetchIdle
    /\ ParseIdle
    /\ NamesIdle
    /\ \E n \in 0..MaxMembers :
           \/ \E f \in [1..n -> MemberChoices] :
                  given = [type |-> "interface",
                           name |-> <<"E", "v", "e", "n", "t", "T", "a", "r", "g", "e", "t">>,
                           members |-> [m \in 1..n |-> MemberOf(f[m])]]
           \/ \E f \in [1..n -> FieldChoices] :
                  given = [type |-> "dictionary",
                           name |-> <<"E", "v", "e", "n", "t", "I", "n", "i", "t">>,
                           members |-> [m \in 1..n |-> FieldOf(f[m])]]
    /\ generated = <<>>

\* if (def.type === 'interface') lines.push(generateInterface(def))
GenerateInterface ==
    /\ called = ""
    /\ given.type = "interface"
    /\ called' = "generateInterface"
    /\ generated' = generateInterface(given)
    /\ UNCHANGED <<given, argType, argDefault, returned, mergeVars, fileVars, fetchVars, parseVars, nameVars>>

\* else if (def.type === 'dictionary') lines.push(generateDictionary(def))
GenerateDictionary ==
    /\ called = ""
    /\ given.type = "dictionary"
    /\ called' = "generateDictionary"
    /\ generated' = generateDictionary(given)
    /\ UNCHANGED <<given, argType, argDefault, returned, mergeVars, fileVars, fetchVars, parseVars, nameVars>>

NextGen == GenerateInterface \/ GenerateDictionary

SpecGen == InitGen /\ [][NextGen]_vars

------------------------------------------------------------------------------
(* SpecFile: a list of definitions is drawn and handed to generateMoonbitFile *)
(* directly, or to main() as the parsed content of the input file.            *)

\* A parsed definition with real members.  webidl2 gives every definition its
\* own keys; the keys the code reads and a kind lacks (partial, members) are
\* falsy or empty there.
FileDefinition(t, n, p, members) ==
    [type |-> t, name |-> n, partial |-> p, members |-> members, extAttrs |-> <<>>]

\* An operation whose only argument has no idlType: generateInterface throws.
MalformedOperation ==
    [type |-> "operation", name |-> OpNames[1], idlType |-> Undefined,
     arguments |-> <<[name |-> ArgNames[1], idlType |-> Undefined,
                      optional |-> FALSE, default |-> Null]>>]

\* A dictionary member without idlType: generateDictionary throws.
MalformedField ==
    [type |-> "field", name |-> FieldNames[1], idlType |-> Undefined,
     required |-> TRUE, default |-> Null]

\* The definitions drawn for the list: well-formed and malformed interfaces
\* and dictionaries with the names main() selects, an interface with another
\* name, a partial interface, and a definition of another kind.
FileDefinitionChoices ==
    <<FileDefinition("interface", <<"E", "v", "e", "n", "t">>, FALSE,
          <<MemberOf(<<"attribute", 1, 1, TRUE, <<>>>>)>>),
      FileDefinition("interface", <<"E", "v", "e", "n", "t", "T", "a", "r", "g", "e", "t">>,
          FALSE, <<MemberOf(<<"attribute", 1, 2, FALSE, <<>>>>)>>),
      FileDefinition("interface", <<"E", "v", "e", "n", "t", "T", "a", "r", "g", "e", "t">>,
          FALSE, <<MalformedOperation>>),
      FileDefinition("dictionary", <<"E", "v", "e", "n", "t", "I", "n", "i", "t">>, FALSE,
          <<FieldOf(<<2, 1, 3>>)>>),
      FileDefinition("dictionary", <<"E", "v", "e", "n", "t", "I", "n", "i", "t">>, FALSE,
          <<MalformedField>>),
      FileDefinition("interface", <<"N", "o", "d", "e">>, FALSE,
          <<MemberOf(<<"attribute", 2, 3, FALSE, <<>>>>)>>),
      FileDefinition("interface", <<"E", "v", "e", "n", "t">>, TRUE,
          <<MemberOf(<<"attribute", 2, 3, FALSE, <<>>>>)>>),
      FileDefinition("enum", <<"E", "v", "e", "n", "t">>, FALSE, <<>>)>>

InitFile ==
    /\ MergeIdle
    /\ TypesIdle
    /\ GenIdle
    /\ FetchIdle
    /\ ParseIdle
    /\ NamesIdle
    /\ \E n \in 0..MaxFileDefs : \E f \in [1..n -> 1..Len(FileDefinitionChoices)] :
           inputDefinitions = [d \in 1..n |-> FileDefinitionChoices[f[d]]]
    /\ outputFile = [written |-> FALSE, lines |-> <<>>]
    /\ errors = <<>>

\* await generateMoonbitFile(definitions, outputFile)
CallGenerateMoonbitFile ==
    /\ called = ""
    /\ called' = "generateMoonbitFile"
    /\ outputFile' = generateMoonbitFile(inputDefinitions).outputFile
    /\ errors' = generateMoonbitFile(inputDefinitions).errors
    /\ UNCHANGED <<inputDefinitions, argType, argDefault, returned, mergeVars, genVars,
                   fetchVars, parseVars, nameVars>>

\* main() on the parsed content of the input file
CallMain ==
    /\ called = ""
    /\ called' = "main"
    /\ outputFile' = main(inputDefinitions).outputFile
    /\ errors' = main(inputDefinitions).errors
    /\ UNCHANGED <<inputDefinitions, argType, argDefault, returned, mergeVars, genVars,
                   fetchVars, parseVars, nameVars>>

NextFile == CallGenerateMoonbitFile \/ CallMain

SpecFile == InitFile /\ [][NextFile]_vars

------------------------------------------------------------------------------
(* SpecNames: an identifier is drawn and handed to toSnakeCase; a name (a     *)
(* keyword, an escaped keyword or the snake-case identifier) is handed to     *)
(* escapeMoonbitKeyword, and the result once more.                            *)

\* The characters identifiers are drawn from: lower case, upper case, the
\* separator.
IdentifierChars == {"a", "b", "A", "B", "_"}

\* Two identifiers of the IDL files, drawn besides the short ones.
KnownIdentifiers ==
    {<<"a", "d", "d", "E", "v", "e", "n", "t", "L", "i", "s", "t", "e", "n", "e", "r">>,
     <<"U", "R", "L">>}

InitNames ==
    /\ MergeIdle
    /\ TypesIdle
    /\ GenIdle
    /\ FileIdle
    /\ FetchIdle
    /\ ParseIdle
    /\ \/ \E n \in 0..MaxIdentifier : identifier \in [1..n -> IdentifierChars]
       \/ identifier \in KnownIdentifiers
    /\ argName = ""

\* toSnakeCase(str)
CallToSnakeCase ==
    /\ called = ""
    /\ called' = "toSnakeCase"
    /\ returned' = toSnakeCase(identifier)
    /\ UNCHANGED <<argType, argDefault, identifier, argName, mergeVars, genVars,
                   fileVars, fetchVars, parseVars>>

\* escapeMoonbitKeyword(name)
CallEscapeMoonbitKeyword ==
    /\ called = ""
    /\ \E name \in keywords \cup {k \o "_" : k \in keywords} \cup {toSnakeCase(identifier)} :
           /\ argName' = name
           /\ returned' = escapeMoonbitKeyword(name)
    /\ called' = "escapeMoonbitKeyword"
    /\ UNCHANGED <<argType, argDefault, identifier, mergeVars, genVars,
                   fileVars, fetchVars, parseVars>>

\* escapeMoonbitKeyword(escapeMoonbitKeyword(name))
CallEscapeMoonbitKeywordAgain ==
    /\ called = "escapeMoonbitKeyword"
    /\ called' = "escapeMoonbitKeyword twice"
    /\ returned' = escapeMoonbitKeyword(returned)
    /\ UNCHANGED <<argType, argDefault, identifier, argName, mergeVars, genVars,
                   fileVars, fetchVars, parseVars>>

NextNames == CallToSnakeCase \/ CallEscapeMoonbitKeyword \/ CallEscapeMoonbitKeywordAgain

SpecNames == InitNames /\ [][NextNames]_vars

------------------------------------------------------------------------------
(* Claims about the naming normalizer *)

\* The characters toSnakeCase returns.
SnakeChars(chars) ==
    LET marked == UnderscoreBeforeUpper(chars)
    IN  StripLeadingUnderscore([k \in 1..Len(marked) |-> ToLowerCase(marked[k])])

\* What the claim prescribes, character by character: each upper-case letter
\* becomes '_' and its lower-case form, every other character stays, and one
\* leading '_' of the whole is dropped.
PrescribedSnake(chars) ==
    LET pieces == [i \in 1..Len(chars) |->
                      IF chars[i] \in DOMAIN LowerOf
                      THEN <<"_", LowerOf[chars[i]]>>
                      ELSE <<chars[i]>>]
        whole == Flatten(pieces)
    IN  IF whole # <<>> /\ whole[1] = "_" THEN SubSeq(whole, 2, Len(whole)) ELSE whole

\* C24: toSnakeCase returns the identifier with '_' in front of each upper-case
\* letter, lower-cased, without one leading '_'; capitals in a row each get
\* their '_' (URL gives u_r_l) and no upper-case letter is left.
C24_SnakeCase ==
    called = "toSnakeCase" =>
        /\ returned = Join(PrescribedSnake(identifier))
        /\ \A i \in 1..Len(SnakeChars(identifier)) :
               SnakeChars(identifier)[i] \notin DOMAIN LowerOf
        /\ identifier = <<"U", "R", "L">> => returned = "u_r_l"
        /\ Join(identifier) = "addEventListener" => returned = "add_event_listener"

\* toSnakeCase was handed URL and returned u_r_l.
C24_Witness ==
    /\ called = "toSnakeCase"
    /\ identifier = <<"U", "R", "L">>
    /\ returned = "u_r_l"

\* C25: escapeMoonbitKeyword returns a keyword with one '_' appended and any
\* other name unchanged; what it returns is not a keyword, and escaping the
\* result again changes nothing.
C25_EscapeOnce ==
    /\ called = "escapeMoonbitKeyword"
           => /\ returned = (IF argName \in keywords THEN argName \o "_" ELSE argName)
              /\ returned \notin keywords
    /\ called = "escapeMoonbitKeyword twice"
           => returned = (IF argName \in keywords THEN argName \o "_" ELSE argName)

\* The keyword type was escaped twice and is type_, not type__.
C25_Witness ==
    /\ called = "escapeMoonbitKeyword twice"
    /\ argName = "type"
    /\ returned = "type_"

------------------------------------------------------------------------------
(* SpecFetch: the copy loop of fetch_webref.  The selected files are drawn;   *)
(* every await of the loop is a step whose outcome (done or thrown) the file  *)
(* system decides.  An entry of summary.files keeps filename, status and the  *)
(* reason or the failed call; its line and size figures are left out.         *)

\* The names readdir delivers, by position: they are distinct.
CopyFileNames == <<"dom.idl", "html.idl", "null.idl", "uievents.idl">>

\* What readFile can deliver: nothing, white space only, or IDL text.
FileContents == {"", " ", "interface Event {};"}

\* !content || content.trim().length === 0
IsEmptyContent(content) == content \in {"", " "}

\* summary.files.push({ filename, status: 'skipped', reason: 'empty' }), with
\* failed++ on top.
WithSkippedAsFailed(sum, filename) ==
    [sum EXCEPT !.failed = @ + 1,
                !.files = Append(@, [filename |-> filename, status |-> "skipped",
                                     detail |-> "empty"])]

\* summary.files.push({ filename, status: 'skipped', reason: 'empty' })
WithSkipped(sum, filename) ==
    [sum EXCEPT !.files = Append(@, [filename |-> filename, status |-> "skipped",
                                     detail |-> "empty"])]

\* summary.success++; summary.files.push({ filename, ..., status: 'success' })
WithSuccess(sum, filename) ==
    [sum EXCEPT !.success = @ + 1,
                !.files = Append(@, [filename |-> filename, status |-> "success",
                                     detail |-> ""])]

\* summary.failed++; summary.files.push({ filename, status: 'failed', error })
WithFailed(sum, filename, thrownBy) ==
    [sum EXCEPT !.failed = @ + 1,
                !.files = Append(@, [filename |-> filename, status |-> "failed",
                                     detail |-> thrownBy])]

\* The next iteration of for (const filename of filesToCopy), or the code
\* after the loop.
NextIteration(at) ==
    [at |-> at + 1,
     await |-> IF at + 1 > Len(filesToCopy) THEN "writeFile" ELSE "readFile"]

InitFetch ==
    /\ MergeIdle
    /\ TypesIdle
    /\ GenIdle
    /\ FileIdle
    /\ ParseIdle
    /\ NamesIdle
    /\ \E n \in 0..MaxCopyFiles : \E f \in [1..n -> FileContents] :
           /\ filesToCopy = [i \in 1..n |-> [filename |-> CopyFileNames[i], content |-> f[i]]]
           /\ summary = [total |-> n, success |-> 0, failed |-> 0, files |-> <<>>]
           /\ fetchPc = [at |-> 1, await |-> IF n = 0 THEN "writeFile" ELSE "readFile"]
    /\ copied = {}

\* await fs.readFile(sourcePath, 'utf-8') settles: it throws, or the content
\* is tested and the copy is started.
ReadFileSettles ==
    /\ fetchPc.await = "readFile"
    /\ LET file == filesToCopy[fetchPc.at]
       IN  \/ /\ summary' = WithFailed(summary, file.filename, "readFile")
              /\ fetchPc' = NextIteration(fetchPc.at)
           \/ /\ IsEmptyContent(file.content)
              /\ summary' = WithSkipped(summary, file.filename)
              /\ fetchPc' = NextIteration(fetchPc.at)
           \/ /\ ~IsEmptyContent(file.content)
              /\ summary' = summary
              /\ fetchPc' = [fetchPc EXCEPT !.await = "copyFile"]
    /\ UNCHANGED <<filesToCopy, copied, mergeVars, typeVars, genVars, fileVars,
                   parseVars, nameVars>>

\* await fs.copyFile(sourcePath, destPath) settles: it throws, or the file is
\* in the output directory and counted.
CopyFileSettles ==
    /\ fetchPc.await = "copyFile"
    /\ LET file == filesToCopy[fetchPc.at]
       IN  \/ /\ summary' = WithFailed(summary, file.filename, "copyFile")
              /\ copied' = copied
           \/ /\ summary' = WithSuccess(summary, file.filename)
              /\ copied' = copied \cup {file.filename}
    /\ fetchPc' = NextIteration(fetchPc.at)
    /\ UNCHANGED <<filesToCopy, mergeVars, typeVars, genVars, fileVars,
                   parseVars, nameVars>>

\* await fs.writeFile(summaryPath, ...) settles and the summary is printed, or
\* it throws and main() is left.
WriteSummarySettles ==
    /\ fetchPc.await = "writeFile"
    /\ \E outcome \in {"done", "fatal"} : fetchPc' = [fetchPc EXCEPT !.await = outcome]
    /\ UNCHANGED <<filesToCopy, summary, copied, mergeVars, typeVars, genVars, fileVars,
                   parseVars, nameVars>>

NextFetch == ReadFileSettles \/ CopyFileSettles \/ WriteSummarySettles

SpecFetch == InitFetch /\ [][NextFetch]_vars

------------------------------------------------------------------------------
(* SpecParse: parse_idl.  main() starts parseIdlFile for every input file in  *)
(* one synchronous map, so every task is at its first await when the state    *)
(* machine starts; from there each await of each task is a step of its own    *)
(* and the steps of different tasks interleave freely.                         *)

\* Paths the command line can name: two of them share their base name.
InputPaths == {"a/dom.idl", "b/dom.idl", "a/html.idl"}

\* What the files can hold: a list of definitions, or text webidl2 rejects.
InputContents == {"interface Event {};", "interface {"}

\* path.basename(idlPath, '.idl')
basename(idlPath) ==
    CASE idlPath = "a/dom.idl" -> "dom"
      [] idlPath = "b/dom.idl" -> "dom"
      [] idlPath = "a/html.idl" -> "html"

\* path.join(outputDir, `${basename}.json`), the output directory being fixed.
outputPath(idlPath) == basename(idlPath) \o ".json"

\* parseWebIDL(idlContent): the number of definitions, or a throw.
parseWebIDL(idlContent) ==
    IF idlContent = "interface Event {};"
    THEN [throws |-> FALSE, length |-> 1]
    ELSE [throws |-> TRUE, length |-> 0]

\* return { success: true, file: idlPath, count: ast.length }
SuccessRecord(idlPath, count) ==
    [settled |-> TRUE, success |-> TRUE, file |-> idlPath, count |-> count, error |-> ""]

\* return { success: false, file: idlPath, error: error.message }
FailureRecord(idlPath, thrownBy) ==
    [settled |-> TRUE, success |-> FALSE, file |-> idlPath, count |-> 0, error |-> thrownBy]

\* The slot of Promise.all for a task that has not returned.
PendingRecord(idlPath) ==
    [settled |-> FALSE, success |-> FALSE, file |-> idlPath, count |-> 0, error |-> ""]

\* The catch block of parseIdlFile: task i returns a failure record.
Caught(i, thrownBy) ==
    /\ taskPc' = [taskPc EXCEPT ![i] = "returned"]
    /\ results' = [results EXCEPT ![i] = FailureRecord(inputFiles[i].path, thrownBy)]

RECURSIVE SumOfCounts(_, _)
\* successful.reduce((sum, r) => sum + r.count, 0)
SumOfCounts(rs, k) ==
    IF k = 0 THEN 0
    ELSE SumOfCounts(rs, k - 1) + (IF rs[k].success THEN rs[k].count ELSE 0)

InitParse ==
    /\ MergeIdle
    /\ TypesIdle
    /\ GenIdle
    /\ FileIdle
    /\ FetchIdle
    /\ NamesIdle
    /\ \E n \in 1..MaxParseFiles :
       \E ps \in [1..n -> InputPaths] : \E cs \in [1..n -> InputContents] :
           /\ \A i, j \in 1..n : ps[i] = ps[j] => cs[i] = cs[j]
           /\ inputFiles = [i \in 1..n |-> [path |-> ps[i], content |-> cs[i]]]
           /\ taskPc = [i \in 1..n |-> "readFile"]
           /\ results = [i \in 1..n |-> PendingRecord(ps[i])]
    /\ outputs = {}
    /\ printed = [done |-> FALSE, successful |-> 0, failed |-> 0, total |-> 0, totalDefs |-> 0]

\* await fs.readFile(idlPath) of task i settles: it throws, or the content is
\* parsed, which throws or leaves the task awaiting mkdir.
TaskReadFileSettles(i) ==
    /\ taskPc[i] = "readFile"
    /\ \/ Caught(i, "readFile")
       \/ /\ parseWebIDL(inputFiles[i].content).throws
          /\ Caught(i, "parseWebIDL")
       \/ /\ ~parseWebIDL(inputFiles[i].content).throws
          /\ taskPc' = [taskPc EXCEPT ![i] = "mkdir"]
          /\ results' = results
    /\ UNCHANGED <<inputFiles, outputs, printed, mergeVars, typeVars, genVars, fileVars,
                   fetchVars, nameVars>>

\* await fs.mkdir(outputDir, { recursive: true }) of task i settles.
TaskMkdirSettles(i) ==
    /\ taskPc[i] = "mkdir"
    /\ \/ Caught(i, "mkdir")
       \/ /\ taskPc' = [taskPc EXCEPT ![i] = "writeFile"]
          /\ results' = results
    /\ UNCHANGED <<inputFiles, outputs, printed, mergeVars, typeVars, genVars, fileVars,
                   fetchVars, nameVars>>

\* await fs.writeFile(outputPath, JSON.stringify(ast)) of task i settles: it
\* throws, or the file at outputPath now holds the JSON of the input file and
\* the task returns its success record.
TaskWriteFileSettles(i) ==
    /\ taskPc[i] = "writeFile"
    /\ \/ /\ Caught(i, "writeFile")
          /\ outputs' = outputs
       \/ /\ taskPc' = [taskPc EXCEPT ![i] = "returned"]
          /\ results' = [results EXCEPT ![i] =
                 SuccessRecord(inputFiles[i].path,
                               parseWebIDL(inputFiles[i].content).length)]
          /\ outputs' = {o \in outputs : o.path # outputPath(inputFiles[i].path)}
                        \cup {[path |-> outputPath(inputFiles[i].path),
                               from |-> inputFiles[i].path]}
    /\ UNCHANGED <<inputFiles, printed, mergeVars, typeVars, genVars, fileVars,
                   fetchVars, nameVars>>

\* await Promise.all(...) settles once every task has returned; the summary is
\* printed from the results.
PrintSummary ==
    /\ ~printed.done
    /\ \A i \in 1..Len(inputFiles) : taskPc[i] = "returned"
    /\ LET successful == {i \in 1..Len(results) : results[i].success}
           failed == {i \in 1..Len(results) : ~results[i].success}
       IN  printed' = [done |-> TRUE,
                       successful |-> Cardinality(successful),
                       failed |-> Cardinality(failed),
                       total |-> Len(results),
                       totalDefs |-> SumOfCounts(results, Len(results))]
    /\ UNCHANGED <<inputFiles, taskPc, results, outputs, mergeVars, typeVars, genVars,
                   fileVars, fetchVars, nameVars>>

NextParse ==
    \/ \E i \in 1..Len(inputFiles) : TaskReadFileSettles(i)
    \/ \E i \in 1..Len(inputFiles) : TaskMkdirSettles(i)
    \/ \E i \in 1..Len(inputFiles) : TaskWriteFileSettles(i)
    \/ PrintSummary

SpecParse == InitParse /\ [][NextParse]_vars

------------------------------------------------------------------------------
(* Claims about the merger.  In a loaded list the definition at index k is   *)
(* the one whose own member and extended attribute are k.                    *)

\* The indices of the loaded list, in input order.
LoadedIndices == [k \in 1..Len(loaded) |-> k]

\* The indices of the non-partial interface/dictionary/namespace definitions
\* named n, in input order.
BasesOf(n) ==
    SelectSeq(LoadedIndices,
        LAMBDA k : IsMergeable(loaded[k]) /\ ~loaded[k].partial /\ loaded[k].name = n)

\* The indices of the partial interface/dictionary/namespace definitions named
\* n, in input order.
PartialsOf(n) ==
    SelectSeq(LoadedIndices,
        LAMBDA k : IsMergeable(loaded[k]) /\ loaded[k].partial /\ loaded[k].name = n)

\* The positions of the merged list that hold a definition named n.
MergedNamed(n) == {k \in 1..Len(merged) : merged[k].name = n}

\* The positions of the merged list that hold an interface, dictionary or
\* namespace named n.
MergedMergeableNamed(n) ==
    {k \in 1..Len(merged) : merged[k].name = n /\ IsMergeable(merged[k])}

\* C1 as stated: a name with one non-partial interface/dictionary/namespace B and
\* partials P1..Pk yields exactly one definition with that name in the merged
\* list, whose members are B's followed by those of P1, ..., Pk in input order.
C1_OneDefinitionPerName ==
    pc = "merged" =>
        \A n \in DefNames :
            Len(BasesOf(n)) = 1 =>
                /\ Cardinality(MergedNamed(n)) = 1
                /\ \A k \in MergedNamed(n) :
                       merged[k].members = BasesOf(n) \o PartialsOf(n)

\* C1 amended: the merged list holds exactly one interface/dictionary/namespace
\* definition with that name (a definition of another kind that shares the name
\* passes through beside it), and its members are B's followed by those of
\* P1, ..., Pk in input order.
C1_MergeCorrectness ==
    pc = "merged" =>
        \A n \in DefNames :
            Len(BasesOf(n)) = 1 =>
                /\ Cardinality(MergedMergeableNamed(n)) = 1
                /\ \A k \in MergedMergeableNamed(n) :
                       /\ merged[k].members = BasesOf(n) \o PartialsOf(n)
                       /\ merged[k].type = loaded[BasesOf(n)[1]].type
                       /\ ~merged[k].partial

\* A base with one partial before it and one after it has been merged.
C1_Witness ==
    /\ pc = "merged"
    /\ \E n \in DefNames :
           /\ Len(BasesOf(n)) = 1
           /\ Len(PartialsOf(n)) = 2
           /\ PartialsOf(n)[1] < BasesOf(n)[1]
           /\ BasesOf(n)[1] < PartialsOf(n)[2]
           /\ \E k \in 1..Len(merged) :
                  merged[k].members = BasesOf(n) \o PartialsOf(n)

Orphans ==
    SelectSeq(LoadedIndices,
        LAMBDA k : IsMergeable(loaded[k]) /\ loaded[k].partial
                   /\ BasesOf(loaded[k].name) = <<>>)

\* The loaded list without its orphan partials.
WithoutOrphans ==
    SelectSeq(loaded,
        LAMBDA d : ~(IsMergeable(d) /\ d.partial /\ BasesOf(d.name) = <<>>))

\* C6: an orphan partial is absent from the merged list (with its members),
\* yields exactly one warning naming it, and the merge returns the list it
\* returns for the input without the orphans.
C6_OrphanPartial ==
    pc = "merged" =>
        /\ \A o \in Range(Orphans) : \A k \in 1..Len(merged) :
               /\ o \notin Range(merged[k].members)
               /\ o \notin Range(merged[k].extAttrs)
        /\ warnings =
               [w \in 1..Len(Orphans) |->
                   [type |-> loaded[Orphans[w]].type, name |-> loaded[Orphans[w]].name]]
        /\ merged = mergePartialDefinitions(WithoutOrphans).result

\* An orphan partial was loaded beside a base and its partial, and the merge is done.
C6_Witness ==
    /\ pc = "merged"
    /\ Len(Orphans) = 1
    /\ Len(warnings) = 1
    /\ Len(merged) = 1
    /\ \E k \in 1..Len(merged) : Len(merged[k].members) = 2

\* The names of the non-partial interface/dictionary/namespace definitions of a
\* list, each once, in the order of first sighting.
RECURSIVE FirstSeenNames(_, _)
FirstSeenNames(defs, seen) ==
    IF defs = <<>> THEN <<>>
    ELSE IF IsMergeable(Head(defs)) /\ ~Head(defs).partial /\ Head(defs).name \notin seen
         THEN <<Head(defs).name>> \o FirstSeenNames(Tail(defs), seen \cup {Head(defs).name})
         ELSE FirstSeenNames(Tail(defs), seen)

\* C7: the merged list is the non-partial interface/dictionary/namespace
\* definitions in the order their names were first seen, then the definitions of
\* other kinds in their original order; none of the former is partial.
C7_OutputOrdering ==
    pc = "merged" =>
        LET names == FirstSeenNames(loaded, {})
            others == SelectSeq(loaded, LAMBDA d : ~IsMergeable(d))
        IN  /\ Len(merged) = Len(names) + Len(others)
            /\ \A k \in 1..Len(names) :
                   /\ merged[k].name = names[k]
                   /\ IsMergeable(merged[k])
                   /\ ~merged[k].partial
                   /\ Head(merged[k].members) \in Range(BasesOf(names[k]))
            /\ SubSeq(merged, Len(names) + 1, Len(merged)) = others
            /\ \A k \in 1..Len(merged) : ~(IsMergeable(merged[k]) /\ merged[k].partial)

\* A definition of another kind was loaded in front of two bases with different
\* names, and the merge has put the bases first.
C7_Witness ==
    /\ pc = "merged"
    /\ Len(loaded) >= 3
    /\ ~IsMergeable(loaded[1])
    /\ Len(FirstSeenNames(loaded, {})) = 2
    /\ merged[1].name = loaded[2].name
    /\ merged[3] = loaded[1]

\* C8: merging the list a merge returned gives back the same definitions with
\* the same members in the same order, and logs no warning.
C8_MergeIdempotent ==
    pc = "remerged" => (merged = firstMerged /\ warnings = <<>>)

\* A list with a merged partial and another kind has been merged twice.
C8_Witness ==
    /\ pc = "remerged"
    /\ Len(merged) >= 2
    /\ \E k \in 1..Len(merged) : Len(merged[k].members) = 2
    /\ \E k \in 1..Len(merged) : ~IsMergeable(merged[k])

\* The partial definitions of the loaded list that have no non-partial
\* definition of their own kind and name.
KindOrphans ==
    {p \in 1..Len(loaded) :
        /\ IsMergeable(loaded[p]) /\ loaded[p].partial
        /\ ~\E b \in 1..Len(loaded) :
               /\ ~loaded[b].partial
               /\ loaded[b].type = loaded[p].type
               /\ loaded[b].name = loaded[p].name}

\* C28: every member of a merged definition comes from a loaded definition of
\* the same kind, and a partial without a base of its own kind and name is
\* warned about and its member is in no merged definition.
C28_MergeWithinKind ==
    pc = "merged" =>
        /\ \A k \in 1..Len(merged) :
               \A m \in 1..Len(merged[k].members) :
                   loaded[merged[k].members[m]].type = merged[k].type
        /\ \A p \in KindOrphans :
               /\ [type |-> loaded[p].type, name |-> loaded[p].name] \in Range(warnings)
               /\ \A k \in 1..Len(merged) : p \notin Range(merged[k].members)

\* C28 for partials that meet no base of another kind (not a claim of its
\* own): when the non-partial definitions named like a partial are all of its
\* kind, its members go to a definition of its kind or nowhere.
MergeWithinKindWhenNamesAreUnique ==
    pc = "merged" =>
        \A k \in 1..Len(merged) :
            \A m \in 1..Len(merged[k].members) :
                LET p == merged[k].members[m]
                IN  (\A b \in 1..Len(loaded) :
                        (IsMergeable(loaded[b]) /\ ~loaded[b].partial
                            /\ loaded[b].name = loaded[p].name)
                            => loaded[b].type = loaded[p].type)
                    => loaded[p].type = merged[k].type

------------------------------------------------------------------------------
(* Claims about the interface generator *)

\* The foreign declarations among the generated lines, in order.
FfiDeclarations == SelectSeq(generated, LAMBDA l : l.k = "ffi")

\* The parameter types and the return type of a declaration.
Signature(l) == [params |-> [p \in 1..Len(l.params) |-> l.params[p].type], ret |-> l.ret]

\* The signatures the foreign declarations of one member have when every
\* parameter and return type is mapped by mapIdlTypeForFFI.
ForeignSignatures(member) ==
    IF member.type = "attribute"
    THEN <<[params |-> <<"JsValue">>,
            ret |-> MapIdlTypeForFFIOr(member.idlType, "JsValue")]>>
         \o (IF ~member.readonly
             THEN <<[params |-> <<"JsValue",
                                  MapIdlTypeForFFIOr(member.idlType, "JsValue")>>,
                     ret |-> "Unit"]>>
             ELSE <<>>)
    ELSE IF member.type = "operation" /\ member.name # <<>>
    THEN <<[params |-> <<"JsValue">>
                       \o [a \in 1..Len(member.arguments) |->
                             mapIdlTypeForFFI(member.arguments[a].idlType)],
            ret |-> MapIdlTypeForFFIOr(member.idlType, "Unit")]>>
    ELSE <<>>

\* The names of the sequence types the semantic mapper can give the drawn types.
ArrayTypeNames ==
    {mapIdlType(GenTypes[i]) : i \in {j \in 1..Len(GenTypes) : IsSequence(GenTypes[j])}}

\* C2: every foreign declaration of an interface member (getter, setter,
\* operation) has its return type and every parameter type mapped by
\* mapIdlTypeForFFI, so none mentions a sequence type Array[...].
C2_ForeignDeclarationsUseForeignMapper ==
    called = "generateInterface" =>
        /\ [d \in 1..Len(FfiDeclarations) |-> Signature(FfiDeclarations[d])]
               = Flatten([m \in 1..Len(given.members) |->
                             ForeignSignatures(given.members[m])])
        /\ \A d \in 1..Len(FfiDeclarations) :
               /\ FfiDeclarations[d].ret \notin ArrayTypeNames
               /\ \A p \in 1..Len(FfiDeclarations[d].params) :
                      FfiDeclarations[d].params[p].type \notin ArrayTypeNames

\* The generated lines of one kind, in order.
TraitSignatures == SelectSeq(generated, LAMBDA l : l.k = "trait_method")
ImplBlocks == SelectSeq(generated, LAMBDA l : l.k = "impl_open")
ImplBodies == SelectSeq(generated, LAMBDA l : l.k = "impl_body")

\* The name of each line of a list of lines.
NamesOf(ls) == [i \in 1..Len(ls) |-> ls[i].name]

\* The attributes of the given interface, in declaration order.
Attributes == SelectSeq(given.members, LAMBDA m : m.type = "attribute")

\* The names an attribute is declared under: its getter, then its setter when
\* it is not readonly.
AccessorNames(member) ==
    LET attrName == escapeMoonbitKeyword(toSnakeCase(member.name))
    IN  <<attrName>> \o (IF member.readonly THEN <<>> ELSE <<"set_" \o attrName>>)

\* The trait signatures of an attribute: the getter returns the semantic type,
\* the setter of a writable attribute takes it.
AccessorSignatures(member) ==
    LET attrName == escapeMoonbitKeyword(toSnakeCase(member.name))
        semantic == MapIdlTypeOr(member.idlType, "JsValue")
    IN  <<[k |-> "trait_method", name |-> attrName,
           params |-> <<Param("self", "", "Self")>>, ret |-> semantic]>>
        \o (IF member.readonly THEN <<>>
            ELSE <<[k |-> "trait_method", name |-> "set_" \o attrName,
                    params |-> <<Param("self", "", "Self"), Param("value", "", semantic)>>,
                    ret |-> "Unit"]>>)

\* Every name an accessor of an attribute of the given interface could be
\* declared under: the normalized name and its set_ form.
AccessorNameSpace ==
    UNION {{escapeMoonbitKeyword(toSnakeCase(Attributes[a].name)),
            "set_" \o escapeMoonbitKeyword(toSnakeCase(Attributes[a].name))} :
               a \in 1..Len(Attributes)}

\* C15: for the attributes of an interface, in order, the trait declares the
\* getter under the normalized name with the semantic type, and the setter
\* exactly for the attributes that are not readonly; the foreign declarations
\* and the implementation blocks of the attributes follow the same pattern.
C15_AttributeAccessors ==
    called = "generateInterface" =>
        LET names == Flatten([a \in 1..Len(Attributes) |-> AccessorNames(Attributes[a])])
            ffiNameSpace == {n \o "_ffi" : n \in AccessorNameSpace}
        IN  /\ SelectSeq(TraitSignatures, LAMBDA l : l.name \in AccessorNameSpace)
                   = Flatten([a \in 1..Len(Attributes) |->
                                 AccessorSignatures(Attributes[a])])
            /\ NamesOf(SelectSeq(FfiDeclarations, LAMBDA l : l.name \in ffiNameSpace))
                   = [i \in 1..Len(names) |-> names[i] \o "_ffi"]
            /\ NamesOf(SelectSeq(ImplBlocks, LAMBDA l : l.name \in AccessorNameSpace))
                   = names

\* A writable attribute with a camelCase name and a sequence type was generated,
\* with its setter in the trait.
C15_Witness ==
    /\ called = "generateInterface"
    /\ Len(Attributes) >= 1
    /\ ~Attributes[1].readonly
    /\ Attributes[1].idlType # Undefined
    /\ IsSequence(Attributes[1].idlType)
    /\ \E i \in 1..Len(TraitSignatures) :
           /\ TraitSignatures[i].name = "set_on_click"
           /\ TraitSignatures[i].params[2].type = "Array[Event]"

\* The number of trait signatures a member stands for: the getter and, when
\* writable, the setter of an attribute; one for a named operation; none for a
\* constructor, a constant or an operation without a name.
SignatureCount(member) ==
    IF member.type = "attribute" THEN (IF member.readonly THEN 1 ELSE 2)
    ELSE IF member.type = "operation" /\ member.name # <<>> THEN 1
    ELSE 0

RECURSIVE SignatureTotal(_)
SignatureTotal(members) ==
    IF members = <<>> THEN 0
    ELSE SignatureCount(Head(members)) + SignatureTotal(Tail(members))

TypesDiffer(idl) == idl # Undefined /\ mapIdlTypeForFFI(idl) # mapIdlType(idl)

\* The members that have implementation blocks, in declaration order.
ImplementedMembers ==
    SelectSeq(given.members,
              LAMBDA m : m.type = "attribute" \/ (m.type = "operation" /\ m.name # <<>>))

\* For each implementation block of a member, the arguments after the receiver
\* as they are written when nothing is converted.
PlainArguments(member) ==
    IF member.type = "attribute"
    THEN <<<<>>>> \o (IF member.readonly THEN <<>> ELSE <<<<"value">>>>)
    ELSE <<[a \in 1..Len(member.arguments) |->
              LET name == escapeMoonbitKeyword(toSnakeCase(member.arguments[a].name))
              IN  IF member.arguments[a].optional
                  THEN name \o ".or("
                       \o getDefaultValue(member.arguments[a].idlType,
                                          member.arguments[a].default)
                       \o ")"
                  ELSE name]>>

\* For each implementation block of a member, where the two mappers disagree:
\* on the result and on each argument after the receiver.
ConversionsDue(member) ==
    IF member.type = "attribute"
    THEN <<[result |-> TypesDiffer(member.idlType), args |-> <<>>]>>
         \o (IF member.readonly THEN <<>>
             ELSE <<[result |-> FALSE, args |-> <<TypesDiffer(member.idlType)>>]>>)
    ELSE <<[result |-> TypesDiffer(member.idlType),
            args |-> [a \in 1..Len(member.arguments) |->
                         TypesDiffer(member.arguments[a].idlType)]]>>

\* Where an implementation block converts: a from_js pipe on the result, an
\* argument that is not written plainly.
ConversionsMade(body, plain) ==
    [result |-> body.pipe # "",
     args |-> [a \in 1..Len(plain) |-> body.args[a + 1] # plain[a]]]

\* C17: every implementation block (getter, setter, operation) converts the
\* result with from_js and an argument with to_js exactly where
\* mapIdlTypeForFFI and mapIdlType give the value's type different names.
C17_ConversionWhereTypesDiffer ==
    called = "generateInterface" =>
        LET plain == Flatten([m \in 1..Len(ImplementedMembers) |->
                                 PlainArguments(ImplementedMembers[m])])
            due == Flatten([m \in 1..Len(ImplementedMembers) |->
                               ConversionsDue(ImplementedMembers[m])])
        IN  /\ Len(ImplBodies) = Len(due)
            /\ \A i \in 1..Len(ImplBodies) :
                   ConversionsMade(ImplBodies[i], plain[i]) = due[i]

\* C17 for the attributes alone (not a claim of its own): a getter pipes its
\* result into from_js and a setter passes value.to_js() exactly where the two
\* mappers disagree.
AttributeConversions ==
    (called = "generateInterface" /\ Len(given.members) = Len(Attributes)) =>
        LET due == Flatten([m \in 1..Len(Attributes) |-> ConversionsDue(Attributes[m])])
        IN  \A i \in 1..Len(ImplBodies) :
                /\ ImplBodies[i].pipe # "" <=> due[i].result
                /\ Len(ImplBodies[i].args) = 2
                       => (ImplBodies[i].args[2] = "value.to_js()" <=> due[i].args[1])

\* The named operations of the given interface, in declaration order.
NamedOperations ==
    SelectSeq(given.members, LAMBDA m : m.type = "operation" /\ m.name # <<>>)

\* The normalized names of the named operations.
OperationNameSpace ==
    {escapeMoonbitKeyword(toSnakeCase(NamedOperations[o].name)) :
        o \in 1..Len(NamedOperations)}

\* The trait signatures and the foreign calls of the named operations, in order.
OperationSignatures ==
    SelectSeq(TraitSignatures, LAMBDA l : l.name \in OperationNameSpace)
OperationCalls ==
    SelectSeq(ImplBodies, LAMBDA l : l.callee \in {n \o "_ffi" : n \in OperationNameSpace})

Bindings(member, interfaceName) ==
    LET own == escapeMoonbitKeyword(toSnakeCase(member.name))
        original == Join(member.name)
    IN  <<[name |-> own \o "_ffi", module |-> "webapi_" \o interfaceName,
           target |-> original]>>
        \o (IF member.type = "attribute" /\ ~member.readonly
            THEN <<[name |-> "set_" \o own \o "_ffi", module |-> "webapi_" \o interfaceName,
                    target |-> "set_" \o original]>>
            ELSE <<>>)

ForeignFieldParams ==
    [m \in 1..Len(given.members) |->
        Param(escapeMoonbitKeyword(toSnakeCase(given.members[m].name)), "",
              mapIdlTypeForFFI(given.members[m].idlType))]

\* C20: the foreign constructor of a dictionary has one parameter per member,
\* in declaration order, typed with mapIdlTypeForFFI of the member's type.
C20_ForeignConstructorParameters ==
    called = "generateDictionary" =>
        /\ Len(FfiDeclarations) = 1
        /\ FfiDeclarations[1].params = ForeignFieldParams

\* C20 without the types (not a claim of its own): the foreign constructor has
\* one parameter per member, in declaration order, under the normalized name.
ForeignConstructorArity ==
    called = "generateDictionary" =>
        /\ Len(FfiDeclarations) = 1
        /\ [p \in 1..Len(FfiDeclarations[1].params) |-> FfiDeclarations[1].params[p].name]
               = [m \in 1..Len(given.members) |-> ForeignFieldParams[m].name]

\* The public constructors among the generated lines, in order.
PubConstructors == SelectSeq(generated, LAMBDA l : l.k = "pub_fn_open")

------------------------------------------------------------------------------
(* Claims about the file generator *)

\* The list handed to generateMoonbitFile: the drawn list itself, or what
\* main() selected from its merge.
HandedOver == IF called = "main" THEN EventDefs(inputDefinitions) ELSE inputDefinitions

\* The definition is one the loop generates and its generator throws.
Fails(def) ==
    \/ def.type = "interface" /\ ~def.partial /\ generateInterfaceThrows(def)
    \/ def.type = "dictionary" /\ ~def.partial /\ generateDictionaryThrows(def)

\* The blocks of the written buffer, in order.
Blocks == SelectSeq(outputFile.lines, LAMBDA l : l.k = "block")

\* C22: when generators throw, the buffer written is the one written for the
\* same list without the failing definitions, and the log holds one line with
\* kind and name per failing definition, in order.
C22_FailureIsolated ==
    (called \in {"generateMoonbitFile", "main"} /\ outputFile.written) =>
        LET failing == SelectSeq(HandedOver, Fails)
            rest == SelectSeq(HandedOver, LAMBDA d : ~Fails(d))
        IN  /\ outputFile = generateMoonbitFile(rest).outputFile
            /\ generateMoonbitFile(rest).errors = <<>>
            /\ errors = [f \in 1..Len(failing) |->
                            [type |-> failing[f].type, name |-> Join(failing[f].name)]]

\* A malformed interface in front of a well-formed dictionary was handed to
\* generateMoonbitFile: one error is logged and the dictionary's block written.
C22_Witness ==
    /\ called = "generateMoonbitFile"
    /\ Len(inputDefinitions) = 2
    /\ Fails(inputDefinitions[1])
    /\ inputDefinitions[2].type = "dictionary"
    /\ ~Fails(inputDefinitions[2])
    /\ errors = <<[type |-> "interface", name |-> "EventTarget"]>>
    /\ Len(Blocks) = 1
    /\ Blocks[1].lines[1] = DocLine("EventInit", "dictionary")

\* The header line each block opens with, for a list of definitions.
DocLinesOf(defs) == [d \in 1..Len(defs) |-> DocLine(Join(defs[d].name), defs[d].type)]

\* The interface and dictionary definitions of a list whose generator does not
\* throw, in order.
Generable(defs) ==
    SelectSeq(defs, LAMBDA d : d.type \in {"interface", "dictionary"} /\ ~d.partial /\ ~Fails(d))

\* C23: in a run of main() every interface and every dictionary of the merged
\* list has one block in the buffer, in the order of the merged list, and a
\* definition of another kind has no block and logs no error.
C23_BlockPerMergedDefinition ==
    called = "main" =>
        LET mergedDefinitions == mergePartialDefinitions(inputDefinitions).result
        IN  /\ [b \in 1..Len(Blocks) |-> Blocks[b].lines[1]]
                   = DocLinesOf(Generable(mergedDefinitions))
            /\ \A e \in 1..Len(errors) : errors[e].type \in {"interface", "dictionary"}

\* C23 for the list generateMoonbitFile is handed (not a claim of its own):
\* every interface and dictionary of that list has its block, in order, and
\* other kinds have none and log nothing.
BlockPerHandedOverDefinition ==
    (called \in {"generateMoonbitFile", "main"} /\ outputFile.written) =>
        /\ [b \in 1..Len(Blocks) |-> Blocks[b].lines[1]] = DocLinesOf(Generable(HandedOver))
        /\ \A e \in 1..Len(errors) : errors[e].type \in {"interface", "dictionary"}

\* No value occurs twice in the sequence.
Distinct(s) == \A i \in 1..Len(s) : \A j \in 1..Len(s) : s[i] = s[j] => i = j

\* The names of the lines of one kind in a block, in order.
NamesIn(block, kind) == NamesOf(SelectSeq(block.lines, LAMBDA l : l.k = kind))

\* The names of the top-level foreign declarations of the whole buffer, in order.
BufferFfiNames == Flatten([b \in 1..Len(Blocks) |-> NamesIn(Blocks[b], "ffi")])

\* Within each definition handed over the member names are distinct, and no
\* two definitions handed over have the same name.
DistinctlyNamed ==
    /\ Distinct([d \in 1..Len(HandedOver) |-> HandedOver[d].name])
    /\ \A d \in 1..Len(HandedOver) :
           Distinct([m \in 1..Len(HandedOver[d].members) |-> HandedOver[d].members[m].name])

\* C27: in one written buffer the names of the foreign declarations are
\* pairwise distinct, and so are the trait method names of each interface,
\* when the member names are distinct within each definition.
C27_DeclarationNamesDistinct ==
    (called \in {"generateMoonbitFile", "main"} /\ outputFile.written /\ DistinctlyNamed) =>
        /\ Distinct(BufferFfiNames)
        /\ \A b \in 1..Len(Blocks) : Distinct(NamesIn(Blocks[b], "trait_method"))

\* C27 within one block (not a claim of its own): the foreign declarations and
\* the trait methods of one definition have distinct names for the drawn
\* member names.
BlockNamesDistinct ==
    (called \in {"generateMoonbitFile", "main"} /\ outputFile.written /\ DistinctlyNamed) =>
        \A b \in 1..Len(Blocks) :
            /\ Distinct(NamesIn(Blocks[b], "ffi"))
            /\ Distinct(NamesIn(Blocks[b], "trait_method"))

------------------------------------------------------------------------------
(* Claims about the copy loop of fetch_webref                                 *)

\* The loop over filesToCopy has been left.
LoopEnded == fetchPc.await \in {"writeFile", "done", "fatal"}

\* The positions of summary.files whose entry has the given status.
EntriesWith(status) == {i \in 1..Len(summary.files) : summary.files[i].status = status}

\* The file was read and found empty: its entry is not that of a thrown
\* readFile.
ReadAsEmpty(i) ==
    /\ IsEmptyContent(filesToCopy[i].content)
    /\ ~(summary.files[i].status = "failed" /\ summary.files[i].detail = "readFile")

------------------------------------------------------------------------------
(* Claims about the concurrent tasks of parse_idl                             *)

\* Every task has returned.
AllSettled == \A i \in 1..Len(inputFiles) : taskPc[i] = "returned"

\* Input i has returned exactly one record, which names it.
OneRecord(i) ==
    /\ results[i].file = inputFiles[i].path
    /\ results[i].settled <=> taskPc[i] = "returned"

\* The output written for input i is in place.
HasOwnOutput(i) ==
    [path |-> outputPath(inputFiles[i].path), from |-> inputFiles[i].path] \in outputs

\* The summary printed agrees with the settled tasks.
SummaryAfterAll ==
    printed.done =>
        /\ AllSettled
        /\ printed.total = Len(inputFiles)
        /\ printed.successful + printed.failed = Len(inputFiles)
        /\ printed.successful = Cardinality({i \in 1..Len(inputFiles) : results[i].success})

\* C29: under every interleaving each input file has exactly one result
\* record, named after it, whether its parse succeeded or failed; once all
\* tasks have settled every successfully parsed file has its own JSON output,
\* whatever became of the other files; and the summary is printed only after
\* every task has settled, with successful + failed = number of input files.
C29_TasksIsolated ==
    /\ Len(results) = Len(inputFiles)
    /\ \A i \in 1..Len(inputFiles) : OneRecord(i)
    /\ AllSettled => \A i \in 1..Len(inputFiles) : results[i].success => HasOwnOutput(i)
    /\ SummaryAfterAll

\* Two different input files have the same output path.
SharedOutputPath ==
    \E i, j \in 1..Len(inputFiles) :
        /\ inputFiles[i].path # inputFiles[j].path
        /\ outputPath(inputFiles[i].path) = outputPath(inputFiles[j].path)

\* The requirement of C29 with the output of a successful file demanded only
\* when no two inputs share an output path.
TasksIsolatedWhenOutputPathsDiffer ==
    /\ Len(results) = Len(inputFiles)
    /\ \A i \in 1..Len(inputFiles) : OneRecord(i)
    /\ (AllSettled /\ ~SharedOutputPath) =>
           \A i \in 1..Len(inputFiles) : results[i].success => HasOwnOutput(i)
    /\ SummaryAfterAll

====
